---- MODULE Spec2Model ----
(***************************************************************************)
(* The multiple_orders fuzz target of serum-dex: the driver that replays   *)
(* an action log against the exchange, winds the market down and asserts   *)
(* conservation, bounded gain/loss and zero residual balances.             *)
(*                                                                         *)
(* The harness (run_actions, run_action, the four get_max_possible_*       *)
(* functions) is translated from dex/fuzz/fuzz_targets/multiple_orders.rs. *)
(* The exchange behind process_instruction (serum_dex, serum_dex_fuzz) is  *)
(* not part of that file; the ex_* operators below model it from the       *)
(* instruction interface the specification describes.                      *)
(***************************************************************************)
EXTENDS Integers, Sequences, FiniteSets, TLC

(***************************************************************************)
(* u64 arithmetic.  TLC's integers are 32 bits wide, the program's amounts *)
(* are not (3_000_000_000 already exceeds 2^31), so a u64 is a sequence of *)
(* limbs, least significant first, without leading zero limbs.  The        *)
(* representation is canonical: two amounts are equal iff their sequences  *)
(* are.                                                                    *)
(***************************************************************************)
Base == 10 ^ 4

RECURSIVE Norm(_)
Norm(a) == IF a = <<>> THEN <<>>
           ELSE IF a[Len(a)] = 0 THEN Norm(SubSeq(a, 1, Len(a) - 1)) ELSE a

RECURSIVE N(_)
N(n) == IF n = 0 THEN <<>> ELSE <<n % Base>> \o N(n \div Base)

Zero == <<>>

Limb(a, k) == IF k <= Len(a) THEN a[k] ELSE 0

RECURSIVE AddC(_, _, _, _)
AddC(a, b, k, c) ==
    IF k > Len(a) /\ k > Len(b)
    THEN IF c = 0 THEN <<>> ELSE <<c>>
    ELSE LET t == Limb(a, k) + Limb(b, k) + c
         IN  <<t % Base>> \o AddC(a, b, k + 1, t \div Base)

Add(a, b) == AddC(a, b, 1, 0)

RECURSIVE SubC(_, _, _, _)
SubC(a, b, k, c) ==
    IF k > Len(a) THEN <<>>
    ELSE LET t == Limb(a, k) - Limb(b, k) - c
         IN  IF t < 0 THEN <<t + Base>> \o SubC(a, b, k + 1, 1)
                      ELSE <<t>> \o SubC(a, b, k + 1, 0)

\* a - b for b <= a
Sub(a, b) == Norm(SubC(a, b, 1, 0))

RECURSIVE LtFrom(_, _, _)
LtFrom(a, b, k) == IF k = 0 THEN FALSE
                   ELSE IF a[k] # b[k] THEN a[k] < b[k] ELSE LtFrom(a, b, k - 1)

Lt(a, b) == IF Len(a) # Len(b) THEN Len(a) < Len(b) ELSE LtFrom(a, b, Len(a))

Le(a, b) == ~Lt(b, a)

MinU(a, b) == IF Lt(b, a) THEN b ELSE a

MaxU(a, b) == IF Lt(a, b) THEN b ELSE a

RECURSIVE MulLimbC(_, _, _, _)
MulLimbC(a, d, k, c) ==
    IF k > Len(a) THEN (IF c = 0 THEN <<>> ELSE <<c>>)
    ELSE LET t == a[k] * d + c
         IN  <<t % Base>> \o MulLimbC(a, d, k + 1, t \div Base)

RECURSIVE MulFrom(_, _, _)
MulFrom(a, b, k) ==
    IF k > Len(b) THEN <<>>
    ELSE Add(MulLimbC(a, b[k], 1, 0), <<0>> \o MulFrom(a, b, k + 1))

Mul(a, b) == Norm(MulFrom(a, b, 1))

RECURSIVE DivC(_, _, _, _)
DivC(a, d, k, r) ==
    IF k = 0 THEN <<>>
    ELSE LET t == r * Base + a[k]
         IN  DivC(a, d, k - 1, t % d) \o <<t \div d>>

\* a / d, rounded down, for a small divisor d (d * Base fits 31 bits)
Div(a, d) == Norm(DivC(a, d, Len(a), 0))

RECURSIVE SumU(_, _)
SumU(f, S) == IF S = {} THEN Zero
              ELSE LET x == CHOOSE y \in S : TRUE
                   IN  Add(f[x], SumU(f, S \ {x}))

\* u64::MAX = 2^64 - 1
U64_MAX == Sub(Mul(N(2 ^ 30), Mul(N(2 ^ 30), N(16))), N(1))

\* the sum modulo 2^64
wrapping_add(a, b) ==
    IF Lt(U64_MAX, Add(a, b)) THEN Sub(Add(a, b), Add(U64_MAX, N(1))) ELSE Add(a, b)

saturating_add(a, b) == MinU(Add(a, b), U64_MAX)

saturating_mul(a, b) == MinU(Mul(a, b), U64_MAX)

(***************************************************************************)
(* Constants of the harness and of the market it sets up.                  *)
(***************************************************************************)
INITIAL_COIN_BALANCE == N(1000000000)

INITIAL_PC_BALANCE == Mul(N(3), N(1000000000))

COIN_LOT_SIZE == N(100000)

PC_LOT_SIZE == N(100)

\* OpenOrders holds 128 order slots; run_action refuses slot >= 128
MAX_SLOTS == 128

\* the limit of the MatchOrders / ConsumeEvents the driver forces
FORCED_LIMIT == 100

\* the driver starts a new match/consume cycle when the length of the
\* liquidation sequence is a multiple of 8
CYCLE_EVERY == 8

\* the divisors of the fee margin (1%) and of the rebate margin (0.1%)
FEE_MARGIN_DIV == 100

REBATE_MARGIN_DIV == 1000

\* twice as many owner ids
OWNER_MODULUS_DOUBLED == 8 + 8

\* OwnerId::arbitrary reduces the raw byte modulo 8
OWNER_MODULUS == 8

OwnerId_arbitrary(i) == i % OWNER_MODULUS

(***************************************************************************)
(* The Action model.                                                       *)
(***************************************************************************)
NewOrderInstruction(side, limit_price, max_qty, client_id) ==
    [side |-> side, limit_price |-> limit_price, max_qty |-> max_qty,
     order_type |-> "Limit", client_id |-> client_id]

PlaceOrder(owner_id, instruction) ==
    [type |-> "PlaceOrder", owner_id |-> owner_id, instruction |-> instruction]

CancelOrder(owner_id, slot, by_client_id) ==
    [type |-> "CancelOrder", owner_id |-> owner_id, slot |-> slot,
     by_client_id |-> by_client_id]

MatchOrders(limit) == [type |-> "MatchOrders", limit |-> limit]

ConsumeEvents(limit) == [type |-> "ConsumeEvents", limit |-> limit]

SettleFunds(owner_id) == [type |-> "SettleFunds", owner_id |-> owner_id]

(***************************************************************************)
(* The bound calculator: four scans of the unexecuted log.  A map is a     *)
(* function whose domain is the set of owners that have an entry.          *)
(***************************************************************************)
\* HashMap::get(k).copied().unwrap_or(0), and the value entry(k).or_insert(0) yields
GetOr0(m, k) == IF k \in DOMAIN m THEN m[k] ELSE Zero

MapPut(m, k, v) == [x \in DOMAIN m \cup {k} |-> IF x = k THEN v ELSE m[x]]

EmptyMap == [x \in {} |-> Zero]

IsPlace(a, side) == a.type = "PlaceOrder" /\ a.instruction.side = side

RECURSIVE coin_gained_from(_, _, _)
coin_gained_from(actions, k, m) ==
    IF k > Len(actions) THEN m
    ELSE LET a == actions[k]
         IN  IF IsPlace(a, "Bid")
             THEN coin_gained_from(actions, k + 1,
                      MapPut(m, a.owner_id,
                          saturating_add(GetOr0(m, a.owner_id),
                              saturating_mul(a.instruction.max_qty, COIN_LOT_SIZE))))
             ELSE coin_gained_from(actions, k + 1, m)

get_max_possible_coin_gained(actions) == coin_gained_from(actions, 1, EmptyMap)

\* a bound on the pc spent that leaves the fee margin out
RECURSIVE pc_spent_without_fees_from(_, _, _)
pc_spent_without_fees_from(actions, k, m) ==
    IF k > Len(actions) THEN m
    ELSE LET a == actions[k]
         IN  IF IsPlace(a, "Bid")
             THEN pc_spent_without_fees_from(actions, k + 1,
                      MapPut(m, a.owner_id,
                          saturating_add(GetOr0(m, a.owner_id),
                              saturating_mul(
                                  saturating_mul(a.instruction.max_qty,
                                                 a.instruction.limit_price),
                                  PC_LOT_SIZE))))
             ELSE pc_spent_without_fees_from(actions, k + 1, m)

RECURSIVE pc_spent_from(_, _, _)
pc_spent_from(actions, k, m) ==
    IF k > Len(actions) THEN m
    ELSE LET a == actions[k]
         IN  IF IsPlace(a, "Bid")
             THEN LET cost == saturating_mul(
                                  saturating_mul(a.instruction.max_qty,
                                                 a.instruction.limit_price),
                                  PC_LOT_SIZE)
                      cost_plus_fees == saturating_add(cost, Div(cost, FEE_MARGIN_DIV))
                  IN  pc_spent_from(actions, k + 1,
                          MapPut(m, a.owner_id,
                              saturating_add(GetOr0(m, a.owner_id), cost_plus_fees)))
             ELSE pc_spent_from(actions, k + 1, m)

get_max_possible_pc_spent(actions) == pc_spent_from(actions, 1, EmptyMap)

\* a scan that charges the orders of both sides
RECURSIVE coin_spent_any_side_from(_, _, _)
coin_spent_any_side_from(actions, k, m) ==
    IF k > Len(actions) THEN m
    ELSE LET a == actions[k]
         IN  IF a.type = "PlaceOrder"
             THEN coin_spent_any_side_from(actions, k + 1,
                      MapPut(m, a.owner_id,
                          saturating_add(GetOr0(m, a.owner_id),
                              saturating_mul(a.instruction.max_qty, COIN_LOT_SIZE))))
             ELSE coin_spent_any_side_from(actions, k + 1, m)

RECURSIVE coin_spent_from(_, _, _)
coin_spent_from(actions, k, m) ==
    IF k > Len(actions) THEN m
    ELSE LET a == actions[k]
         IN  IF IsPlace(a, "Ask")
             THEN coin_spent_from(actions, k + 1,
                      MapPut(m, a.owner_id,
                          saturating_add(GetOr0(m, a.owner_id),
                              saturating_mul(a.instruction.max_qty, COIN_LOT_SIZE))))
             ELSE coin_spent_from(actions, k + 1, m)

get_max_possible_coin_spent(actions) == coin_spent_from(actions, 1, EmptyMap)

\* a scan that never raises the running bid price
RECURSIVE pc_gained_ignoring_bids_from(_, _, _, _)
pc_gained_ignoring_bids_from(actions, k, max_price, m) ==
    IF k > Len(actions) THEN m
    ELSE LET a == actions[k]
         IN  IF IsPlace(a, "Ask")
             THEN LET max_take == saturating_mul(
                                      saturating_mul(a.instruction.max_qty, max_price),
                                      PC_LOT_SIZE)
                      max_provide == saturating_mul(
                                         saturating_mul(a.instruction.max_qty,
                                                        a.instruction.limit_price),
                                         PC_LOT_SIZE)
                  IN  pc_gained_ignoring_bids_from(actions, k + 1, max_price,
                          MapPut(m, a.owner_id,
                              saturating_add(GetOr0(m, a.owner_id),
                                  MaxU(max_take,
                                       saturating_add(max_provide,
                                           Div(max_provide, REBATE_MARGIN_DIV))))))
             ELSE pc_gained_ignoring_bids_from(actions, k + 1, max_price, m)

RECURSIVE pc_gained_from(_, _, _, _)
pc_gained_from(actions, k, max_price, m) ==
    IF k > Len(actions) THEN m
    ELSE LET a == actions[k]
         IN  IF IsPlace(a, "Bid")
             THEN pc_gained_from(actions, k + 1,
                      MaxU(max_price, a.instruction.limit_price), m)
             ELSE IF IsPlace(a, "Ask")
             THEN LET max_take == saturating_mul(
                                      saturating_mul(a.instruction.max_qty, max_price),
                                      PC_LOT_SIZE)
                      max_provide == saturating_mul(
                                         saturating_mul(a.instruction.max_qty,
                                                        a.instruction.limit_price),
                                         PC_LOT_SIZE)
                      max_provide_plus_rebate ==
                          saturating_add(max_provide,
                                         Div(max_provide, REBATE_MARGIN_DIV))
                  IN  pc_gained_from(actions, k + 1, max_price,
                          MapPut(m, a.owner_id,
                              saturating_add(GetOr0(m, a.owner_id),
                                  MaxU(max_take, max_provide_plus_rebate))))
             ELSE pc_gained_from(actions, k + 1, max_price, m)

get_max_possible_pc_gained(actions) == pc_gained_from(actions, 1, Zero, EmptyMap)

(***************************************************************************)
(* Accounts.  An Owner is the bundle Owner::new creates; the data of its   *)
(* orders_account is the exchange's OpenOrders record, which stays         *)
(* uninitialised until the exchange accepts the owner's first order.       *)
(* `slots` maps each occupied slot to its order id, side and client order  *)
(* id; a slot outside its domain is free (order id 0).                     *)
(***************************************************************************)
NoSlots == [s \in {} |-> Zero]

OrderIdZero == <<Zero, 0>>

UninitializedOpenOrders ==
    [initialized |-> FALSE,
     native_coin_free |-> Zero, native_coin_total |-> Zero,
     native_pc_free |-> Zero, native_pc_total |-> Zero,
     slots |-> NoSlots]

\* Owner::new: fresh keys, an untouched orders account, two funded token accounts
Owner_new(draw) ==
    [signer_account |-> draw.signer,
     orders_key     |-> draw.orders,
     orders_account |-> UninitializedOpenOrders,
     coin_account   |-> INITIAL_COIN_BALANCE,
     pc_account     |-> INITIAL_PC_BALANCE]

\* Owner::open_orders: Some(record) iff the account carries an initialised record
open_orders_is_some(owner) == owner.orders_account.initialized

\* OpenOrders::slot_side
slot_side(orders, slot) ==
    IF slot \in DOMAIN orders.slots THEN orders.slots[slot].side ELSE "None"

\* orders.orders[slot]
order_at(orders, slot) ==
    IF slot \in DOMAIN orders.slots THEN orders.slots[slot].order_id ELSE OrderIdZero

\* orders.client_order_ids[slot]
client_order_id_at(orders, slot) ==
    IF slot \in DOMAIN orders.slots THEN orders.slots[slot].client_order_id ELSE 0

get_token_account_balance_coin(owner) == owner.coin_account

get_token_account_balance_pc(owner) == owner.pc_account

(***************************************************************************)
(* The exchange, as the harness sees it through process_instruction: six   *)
(* instructions over the market accounts and the accounts passed in, each  *)
(* answering Ok or an error code, a rejected instruction leaving every     *)
(* account as it was.  Orders wait in the request queue until MatchOrders  *)
(* runs them against the book; fills and releases wait in the event queue  *)
(* until ConsumeEvents applies them to the OpenOrders records; SettleFunds *)
(* pays free balances out of the vaults.                                   *)
(***************************************************************************)
REQ_Q_CAPACITY == 8

TAKER_FEE_BPS == 22

MAKER_REBATE_BPS == 3

BPS_DIV == 10000

\* rounded up
taker_fee(native_pc) ==
    Div(Add(Mul(native_pc, N(TAKER_FEE_BPS)), N(BPS_DIV - 1)), BPS_DIV)

\* rounded down
maker_rebate(native_pc) == Div(Mul(native_pc, N(MAKER_REBATE_BPS)), BPS_DIV)

\* setup_market
EmptyMarket ==
    [req_q |-> <<>>, event_q |-> <<>>, bids |-> <<>>, asks |-> <<>>,
     next_seq_num |-> 1,
     coin_vault |-> Zero, pc_vault |-> Zero,
     coin_fees_accrued |-> Zero, pc_fees_accrued |-> Zero]

Opposite(side) == IF side = "Bid" THEN "Ask" ELSE "Bid"

Book(market, side) == IF side = "Bid" THEN market.bids ELSE market.asks

WithBook(market, side, book) ==
    IF side = "Bid" THEN [market EXCEPT !.bids = book]
                    ELSE [market EXCEPT !.asks = book]

\* e goes before f in the book of `side`: better price first, then older first
Before(e, f, side) ==
    IF e.price # f.price
    THEN IF side = "Bid" THEN Lt(f.price, e.price) ELSE Lt(e.price, f.price)
    ELSE e.order_id[2] < f.order_id[2]

RECURSIVE BookInsert(_, _, _)
BookInsert(book, e, side) ==
    IF book = <<>> THEN <<e>>
    ELSE IF Before(e, Head(book), side) THEN <<e>> \o book
    ELSE <<Head(book)>> \o BookInsert(Tail(book), e, side)

LowestFreeSlot(orders) ==
    LET free == (0 .. MAX_SLOTS - 1) \ DOMAIN orders.slots
    IN  CHOOSE s \in free : \A t \in free : s <= t

Rejected(code, market, owner) == [err |-> code, market |-> market, owner |-> owner]

\* what an order locks before fees: pc for a bid, coin for an ask
order_cost(instr) ==
    IF instr.side = "Bid" THEN Mul(Mul(instr.max_qty, instr.limit_price), PC_LOT_SIZE)
                          ELSE Mul(instr.max_qty, COIN_LOT_SIZE)

\* a bid also locks the taker fee of its full cost
order_lock(side, cost) == IF side = "Bid" THEN Add(cost, taker_fee(cost)) ELSE cost

free_balance(orders, side) ==
    IF side = "Bid" THEN orders.native_pc_free ELSE orders.native_coin_free

wallet_balance(owner, side) ==
    IF side = "Bid" THEN owner.pc_account ELSE owner.coin_account

\* the accepted order: slot taken, funds locked, request queued, deposit moved
new_order_accepted(market, owner, owner_id, instr, lock, free_qty_to_lock, deposit, slot) ==
    LET oo       == owner.orders_account
        isBid    == instr.side = "Bid"
        order_id == <<instr.limit_price, market.next_seq_num>>
        entry    == [order_id |-> order_id, side |-> instr.side,
                     client_order_id |-> instr.client_id]
        slots2   == [s \in DOMAIN oo.slots \cup {slot} |->
                        IF s = slot THEN entry ELSE oo.slots[s]]
        oo2 == IF isBid
               THEN [oo EXCEPT !.initialized = TRUE, !.slots = slots2,
                               !.native_pc_free = Sub(@, free_qty_to_lock),
                               !.native_pc_total = Add(@, deposit)]
               ELSE [oo EXCEPT !.initialized = TRUE, !.slots = slots2,
                               !.native_coin_free = Sub(@, free_qty_to_lock),
                               !.native_coin_total = Add(@, deposit)]
        request == [type |-> "NewOrder", side |-> instr.side,
                    order_id |-> order_id, owner |-> owner_id,
                    owner_slot |-> slot, max_qty |-> instr.max_qty,
                    limit_price |-> instr.limit_price,
                    native_qty_locked |-> lock,
                    order_type |-> instr.order_type]
    IN  [err |-> "Ok",
         market |-> IF isBid
                    THEN [market EXCEPT !.req_q = Append(@, request),
                                        !.next_seq_num = @ + 1,
                                        !.pc_vault = Add(@, deposit)]
                    ELSE [market EXCEPT !.req_q = Append(@, request),
                                        !.next_seq_num = @ + 1,
                                        !.coin_vault = Add(@, deposit)],
         owner |-> IF isBid
                   THEN [owner EXCEPT !.orders_account = oo2,
                                      !.pc_account = Sub(@, deposit)]
                   ELSE [owner EXCEPT !.orders_account = oo2,
                                      !.coin_account = Sub(@, deposit)]]

new_order_checked(market, owner, owner_id, instr, lock, free_qty_to_lock, deposit) ==
    IF Lt(U64_MAX, lock) THEN Rejected("InsufficientFunds", market, owner)
    ELSE IF Cardinality(DOMAIN owner.orders_account.slots) >= MAX_SLOTS
         THEN Rejected("TooManyOpenOrders", market, owner)
    ELSE IF Len(market.req_q) >= REQ_Q_CAPACITY
         THEN Rejected("RequestQueueFull", market, owner)
    ELSE IF Lt(wallet_balance(owner, instr.side), deposit)
         THEN Rejected("InsufficientFunds", market, owner)
    ELSE new_order_accepted(market, owner, owner_id, instr, lock, free_qty_to_lock,
                            deposit, LowestFreeSlot(owner.orders_account))

new_order_funded(market, owner, owner_id, instr, lock, free_qty_to_lock) ==
    new_order_checked(market, owner, owner_id, instr, lock, free_qty_to_lock,
                      Sub(lock, free_qty_to_lock))

new_order_locked(market, owner, owner_id, instr, lock) ==
    new_order_funded(market, owner, owner_id, instr, lock,
                     MinU(lock, free_balance(owner.orders_account, instr.side)))

\* NewOrder: lock the order's worst-case cost (free balances first, the rest
\* deposited from the payer's token account), take a slot, queue the request
ex_new_order(market, owner, owner_id, instr) ==
    new_order_locked(market, owner, owner_id, instr,
                     order_lock(instr.side, order_cost(instr)))

CancelRequest(owner_id, slot, entry) ==
    [type |-> "CancelOrder", side |-> entry.side, order_id |-> entry.order_id,
     owner |-> owner_id, owner_slot |-> slot]

\* CancelOrder: the slot must hold the order named; queue the cancellation
ex_cancel_order(market, owner, owner_id, side, order_id, owner_slot) ==
    LET oo == owner.orders_account
    IN  IF ~(owner_slot \in DOMAIN oo.slots
             /\ oo.slots[owner_slot].order_id = order_id
             /\ oo.slots[owner_slot].side = side)
        THEN Rejected("OrderNotFound", market, owner)
        ELSE IF Len(market.req_q) >= REQ_Q_CAPACITY
             THEN Rejected("RequestQueueFull", market, owner)
        ELSE [err |-> "Ok",
              market |-> [market EXCEPT !.req_q =
                              Append(@, CancelRequest(owner_id, owner_slot,
                                                      oo.slots[owner_slot]))],
              owner |-> owner]

slots_with_client_id(orders, client_id) ==
    {s \in DOMAIN orders.slots : orders.slots[s].client_order_id = client_id}

LowestOf(S) == CHOOSE s \in S : \A t \in S : s <= t

\* CancelOrderByClientId: client id 0 names no order
ex_cancel_order_by_client_id(market, owner, owner_id, client_id) ==
    LET oo == owner.orders_account
    IN  IF client_id = 0 THEN Rejected("ClientOrderIdIsZero", market, owner)
        ELSE IF slots_with_client_id(oo, client_id) = {}
             THEN Rejected("ClientIdNotFound", market, owner)
        ELSE IF Len(market.req_q) >= REQ_Q_CAPACITY
             THEN Rejected("RequestQueueFull", market, owner)
        ELSE [err |-> "Ok",
              market |-> [market EXCEPT !.req_q =
                  Append(@, CancelRequest(owner_id,
                      LowestOf(slots_with_client_id(oo, client_id)),
                      oo.slots[LowestOf(slots_with_client_id(oo, client_id))]))],
              owner |-> owner]

FillEvent(side, maker, owner_id, slot, paid, received, unlocked) ==
    [type |-> "Fill", side |-> side, maker |-> maker, owner |-> owner_id,
     owner_slot |-> slot, native_qty_paid |-> paid,
     native_qty_received |-> received, native_qty_unlocked |-> unlocked,
     release_slot |-> FALSE]

OutEvent(side, owner_id, slot, unlocked, release) ==
    [type |-> "Out", side |-> side, maker |-> FALSE, owner |-> owner_id,
     owner_slot |-> slot, native_qty_paid |-> Zero,
     native_qty_received |-> Zero, native_qty_unlocked |-> unlocked,
     release_slot |-> release]

\* The taker side of a new order: trade with the best resting orders of the
\* other side while they cross the limit price, at the resting order's price.
\* st = [book, coin_remaining, events, accum_pc, rebates]
Crosses(taker_side, limit_price, best) ==
    IF taker_side = "Bid" THEN Le(best.price, limit_price)
                          ELSE Le(limit_price, best.price)

\* one trade against `best`, the head of the book
traded(st, taker_side, best, trade_qty, left, coin, native_maker_pc, rebate) ==
    [book |-> IF left = Zero THEN Tail(st.book)
              ELSE <<[best EXCEPT !.qty = left]>> \o Tail(st.book),
     coin_remaining |-> Sub(st.coin_remaining, trade_qty),
     events |-> st.events
                \o <<IF taker_side = "Bid"
                     THEN FillEvent("Ask", TRUE, best.owner, best.owner_slot,
                                    coin, Add(native_maker_pc, rebate), Zero)
                     ELSE FillEvent("Bid", TRUE, best.owner, best.owner_slot,
                                    Sub(native_maker_pc, rebate), coin, rebate)>>
                \o (IF left = Zero
                    THEN <<OutEvent(Opposite(taker_side), best.owner,
                                    best.owner_slot, Zero, TRUE)>>
                    ELSE <<>>),
     accum_pc |-> Add(st.accum_pc, native_maker_pc),
     rebates |-> Add(st.rebates, rebate)]

trade_priced(st, taker_side, best, trade_qty, native_maker_pc) ==
    traded(st, taker_side, best, trade_qty, Sub(best.qty, trade_qty),
           Mul(trade_qty, COIN_LOT_SIZE), native_maker_pc,
           maker_rebate(native_maker_pc))

trade_sized(st, taker_side, best, trade_qty) ==
    trade_priced(st, taker_side, best, trade_qty,
                 Mul(Mul(trade_qty, best.price), PC_LOT_SIZE))

RECURSIVE take(_, _, _)
take(st, taker_side, limit_price) ==
    IF st.book = <<>> \/ st.coin_remaining = Zero THEN st
    ELSE IF ~Crosses(taker_side, limit_price, Head(st.book)) THEN st
    ELSE take(trade_sized(st, taker_side, Head(st.book),
                          MinU(Head(st.book).qty, st.coin_remaining)),
              taker_side, limit_price)

\* the order after its taker phase r: the taker's fill, the release of what
\* it no longer needs locked, and the remainder resting on the book
new_order_released(market, req, r, fee, post, still_locked, remaining) ==
    LET isBid  == req.side = "Bid"
        filled == Sub(req.max_qty, r.coin_remaining)
        taker_fill ==
            IF r.accum_pc = Zero THEN <<>>
            ELSE IF isBid
                 THEN <<FillEvent("Bid", FALSE, req.owner, req.owner_slot,
                                  Add(r.accum_pc, fee), Mul(filled, COIN_LOT_SIZE), Zero)>>
                 ELSE <<FillEvent("Ask", FALSE, req.owner, req.owner_slot,
                                  Mul(filled, COIN_LOT_SIZE), Sub(r.accum_pc, fee), Zero)>>
        resting == [order_id |-> req.order_id, owner |-> req.owner,
                    owner_slot |-> req.owner_slot, qty |-> r.coin_remaining,
                    price |-> req.limit_price]
    IN  [market EXCEPT
            !.bids = IF isBid
                     THEN (IF post THEN BookInsert(@, resting, "Bid") ELSE @)
                     ELSE r.book,
            !.asks = IF isBid
                     THEN r.book
                     ELSE (IF post THEN BookInsert(@, resting, "Ask") ELSE @),
            !.event_q = @ \o r.events \o taker_fill
                          \o <<OutEvent(req.side, req.owner, req.owner_slot,
                                        Sub(remaining, still_locked), ~post)>>,
            !.pc_fees_accrued = Add(@, Sub(fee, r.rebates))]

new_order_taken(market, req, r, fee, post) ==
    new_order_released(market, req, r, fee, post,
        IF ~post THEN Zero
        ELSE IF req.side = "Bid"
             THEN Mul(Mul(r.coin_remaining, req.limit_price), PC_LOT_SIZE)
             ELSE Mul(r.coin_remaining, COIN_LOT_SIZE),
        IF req.side = "Bid" THEN Sub(req.native_qty_locked, Add(r.accum_pc, fee))
                            ELSE Mul(r.coin_remaining, COIN_LOT_SIZE))

new_order_matched(market, req, r) ==
    new_order_taken(market, req, r, taker_fee(r.accum_pc),
                    r.coin_remaining # Zero /\ req.order_type = "Limit")

process_new_order_request(market, req) ==
    new_order_matched(market, req,
        take([book |-> Book(market, Opposite(req.side)),
              coin_remaining |-> req.max_qty, events |-> <<>>,
              accum_pc |-> Zero, rebates |-> Zero],
             req.side, req.limit_price))

book_positions(book, req) ==
    {k \in 1 .. Len(book) :
        /\ book[k].order_id = req.order_id
        /\ book[k].owner = req.owner
        /\ book[k].owner_slot = req.owner_slot}

cancel_found(market, req, book, k) ==
    [WithBook(market, req.side,
              SubSeq(book, 1, k - 1) \o SubSeq(book, k + 1, Len(book)))
     EXCEPT !.event_q =
        Append(@, OutEvent(req.side, req.owner, req.owner_slot,
                           IF req.side = "Bid"
                           THEN Mul(Mul(book[k].qty, book[k].price), PC_LOT_SIZE)
                           ELSE Mul(book[k].qty, COIN_LOT_SIZE),
                           TRUE))]

\* a cancellation removes the order from the book if it still rests there
process_cancel_request(market, req) ==
    IF book_positions(Book(market, req.side), req) = {} THEN market
    ELSE cancel_found(market, req, Book(market, req.side),
                      LowestOf(book_positions(Book(market, req.side), req)))

process_request(market, req) ==
    IF req.type = "NewOrder" THEN process_new_order_request(market, req)
    ELSE process_cancel_request(market, req)

RECURSIVE match_loop(_, _)
match_loop(market, n) ==
    IF n = 0 \/ market.req_q = <<>> THEN market
    ELSE match_loop(process_request([market EXCEPT !.req_q = Tail(@)],
                                    Head(market.req_q)),
                    n - 1)

\* MatchOrders(limit): run up to `limit` requests against the book
ex_match_orders(market, limit) == [err |-> "Ok", market |-> match_loop(market, limit)]

event_applied(orders, e) ==
    IF e.side = "Bid"
    THEN [orders EXCEPT
             !.native_pc_total = Sub(@, e.native_qty_paid),
             !.native_pc_free = Add(@, e.native_qty_unlocked),
             !.native_coin_total = Add(@, e.native_qty_received),
             !.native_coin_free = Add(@, e.native_qty_received)]
    ELSE [orders EXCEPT
             !.native_coin_total = Sub(@, e.native_qty_paid),
             !.native_coin_free = Add(@, e.native_qty_unlocked),
             !.native_pc_total = Add(@, e.native_qty_received),
             !.native_pc_free = Add(@, e.native_qty_received)]

slot_released(orders, e) ==
    IF e.release_slot
    THEN [orders EXCEPT !.slots =
             [s \in DOMAIN orders.slots \ {e.owner_slot} |-> orders.slots[s]]]
    ELSE orders

apply_event(orders, e) == slot_released(event_applied(orders, e), e)

\* st = [market, owners]
RECURSIVE consume_loop(_, _, _)
consume_loop(st, accounts, n) ==
    IF n = 0 \/ st.market.event_q = <<>> THEN st
    ELSE IF Head(st.market.event_q).owner \notin accounts THEN st
    ELSE consume_loop(
             [market |-> [st.market EXCEPT !.event_q = Tail(@)],
              owners |-> [st.owners EXCEPT
                             ![Head(st.market.event_q).owner].orders_account =
                                 apply_event(@, Head(st.market.event_q))]],
             accounts, n - 1)

consumed(r) == [err |-> "Ok", market |-> r.market, owners |-> r.owners]

\* ConsumeEvents(limit): apply up to `limit` events to the OpenOrders accounts
\* passed in
ex_consume_events(market, owners, accounts, limit) ==
    consumed(consume_loop([market |-> market, owners |-> owners], accounts, limit))

\* SettleFunds: pay the owner's free balances out of the vaults
ex_settle_funds(market, owner) ==
    LET oo == owner.orders_account
    IN  [err |-> "Ok",
         market |-> [market EXCEPT !.coin_vault = Sub(@, oo.native_coin_free),
                                   !.pc_vault = Sub(@, oo.native_pc_free)],
         owner |-> [owner EXCEPT
                       !.coin_account = Add(@, oo.native_coin_free),
                       !.pc_account = Add(@, oo.native_pc_free),
                       !.orders_account =
                           [oo EXCEPT !.native_coin_total = Sub(@, oo.native_coin_free),
                                      !.native_pc_total = Sub(@, oo.native_pc_free),
                                      !.native_coin_free = Zero,
                                      !.native_pc_free = Zero]]]

(***************************************************************************)
(* run_action.  A run's mutable state is the record                        *)
(*   r = [owners, market, sent, diag, last, failure, ...]                  *)
(* where `sent` lists the instructions handed to process_instruction,      *)
(* `diag` counts the diagnostic lines printed, `last` describes the last   *)
(* run_action call and `failure` is the panic message ("" while none).     *)
(* `fault` is the answer the exchange is made to give ("none": its own).   *)
(***************************************************************************)
NoInstruction == [kind |-> "None"]

\* before the first run_action call
NoAction == [type |-> "None"]

Called(action, instr, err, absorbed) ==
    [action |-> action, instr |-> instr, err |-> err, absorbed |-> absorbed]

\* lines 257-259
Entered(r, verbose) == [r EXCEPT !.diag = IF verbose >= 2 THEN @ + 1 ELSE @]

\* lines 436-466: reached only when the match arm neither returned nor panicked
Trailer(diag, verbose) ==
    diag + (IF verbose >= 2 THEN 1 ELSE 0) + (IF verbose >= 3 THEN 2 ELSE 0)

\* an early `return` of run_action: nothing dispatched, nothing printed after
Returned(r, action) ==
    [r EXCEPT !.last = Called(action, NoInstruction, "None", FALSE)]

\* process_instruction answered and the arm let the run go on
Continued(r, action, instr, err, owners, market, verbose) ==
    [r EXCEPT !.owners = owners, !.market = market,
              !.sent = Append(@, instr),
              !.diag = Trailer(@, verbose),
              !.last = Called(action, instr, err, err # "Ok")]

\* unwrap() of an error, or panic!()
Panicked(r, action, instr, err, owners, message) ==
    [r EXCEPT !.owners = owners,
              !.sent = Append(@, instr),
              !.last = Called(action, instr, err, FALSE),
              !.failure = message]

\* an insert that replaces the bundle an owner already has
insert_fresh(owners, owner_id, draw) ==
    [x \in DOMAIN owners \cup {owner_id} |->
        IF x = owner_id THEN Owner_new(draw) ELSE owners[x]]

\* HashMap::entry(owner_id).or_insert_with(|| Owner::new(..))
entry_or_insert_with(owners, owner_id, draw) ==
    IF owner_id \in DOMAIN owners THEN owners
    ELSE [x \in DOMAIN owners \cup {owner_id} |->
             IF x = owner_id THEN Owner_new(draw) ELSE owners[x]]

\* a PlaceOrder that absorbs whatever the exchange answers
PlaceOrderAbsorbsAll(err) == TRUE

\* lines 289-293
PlaceOrderAbsorbs(err) == err \in {"InsufficientFunds", "RequestQueueFull"}

\* lines 352-356
CancelOrderAbsorbs(err, expects_zero_id) ==
    \/ err = "RequestQueueFull"
    \/ err = "ClientOrderIdIsZero" /\ expects_zero_id

NewOrderSent(action) ==
    [kind |-> "NewOrder", owner |-> action.owner_id,
     payer |-> IF action.instruction.side = "Bid" THEN "pc_account" ELSE "coin_account",
     data |-> action.instruction]

\* lines 289-294
place_order_answered(action, r, owners1, resp, verbose) ==
    IF resp.err = "Ok" \/ PlaceOrderAbsorbs(resp.err)
    THEN Continued(r, action, NewOrderSent(action), resp.err,
                   [owners1 EXCEPT ![action.owner_id] = resp.owner], resp.market, verbose)
    ELSE Panicked(r, action, NewOrderSent(action), resp.err, owners1, resp.err)

\* lines 270-288
place_order_dispatched(action, r, owners1, verbose, fault) ==
    place_order_answered(action, r, owners1,
        IF fault = "none"
        THEN ex_new_order(r.market, owners1[action.owner_id], action.owner_id,
                          action.instruction)
        ELSE Rejected(fault, r.market, owners1[action.owner_id]),
        verbose)

\* lines 262-295
run_place_order(action, r0, verbose, rng, fault) ==
    place_order_dispatched(action, Entered(r0, verbose),
        entry_or_insert_with(r0.owners, action.owner_id, rng[action.owner_id]),
        verbose, fault)

\* lines 329-341
CancelSent(action, side, order_id, client_order_id) ==
    IF action.by_client_id
    THEN [kind |-> "CancelOrderByClientId", owner |-> action.owner_id,
          client_id |-> client_order_id]
    ELSE [kind |-> "CancelOrder", owner |-> action.owner_id, side |-> side,
          order_id |-> order_id, owner_slot |-> action.slot]

\* lines 352-365
cancel_order_answered(action, r, instr, expects_zero_id, resp, verbose) ==
    IF resp.err = "Ok"
    THEN IF expects_zero_id
         THEN Panicked(r, action, instr, resp.err, r.owners,
                       "Should have gotten client cancel rejected")
         ELSE Continued(r, action, instr, resp.err,
                        [r.owners EXCEPT ![action.owner_id] = resp.owner],
                        resp.market, verbose)
    ELSE IF CancelOrderAbsorbs(resp.err, expects_zero_id)
    THEN Continued(r, action, instr, resp.err, r.owners, r.market, verbose)
    ELSE Panicked(r, action, instr, resp.err, r.owners, resp.err)

\* lines 327-351
cancel_order_found(action, r, owner, side, order_id, client_order_id, verbose, fault) ==
    IF action.by_client_id /\ client_order_id = 0 THEN Returned(r, action)
    ELSE cancel_order_answered(action, r,
             CancelSent(action, side, order_id, client_order_id),
             client_order_id = 0 /\ action.by_client_id,
             IF fault # "none" THEN Rejected(fault, r.market, owner)
             ELSE IF action.by_client_id
             THEN ex_cancel_order_by_client_id(r.market, owner, action.owner_id,
                                               client_order_id)
             ELSE ex_cancel_order(r.market, owner, action.owner_id, side, order_id,
                                  action.slot),
             verbose)

\* a cancel that takes the slot for occupied without reading it
cancel_order_without_reread(action, r, verbose, fault) ==
    IF action.slot >= MAX_SLOTS THEN Returned(r, action)
    ELSE IF action.owner_id \notin DOMAIN r.owners THEN Returned(r, action)
    ELSE IF ~open_orders_is_some(r.owners[action.owner_id]) THEN Returned(r, action)
    ELSE cancel_order_found(action, r, r.owners[action.owner_id],
             slot_side(r.owners[action.owner_id].orders_account, action.slot),
             order_at(r.owners[action.owner_id].orders_account, action.slot),
             client_order_id_at(r.owners[action.owner_id].orders_account, action.slot),
             verbose, fault)

\* lines 302-325
cancel_order_entered(action, r, verbose, fault) ==
    IF action.slot >= MAX_SLOTS THEN Returned(r, action)
    ELSE IF action.owner_id \notin DOMAIN r.owners THEN Returned(r, action)
    ELSE IF ~open_orders_is_some(r.owners[action.owner_id]) THEN Returned(r, action)
    ELSE IF slot_side(r.owners[action.owner_id].orders_account, action.slot) = "None"
    THEN Returned(r, action)
    ELSE cancel_order_found(action, r, r.owners[action.owner_id],
             slot_side(r.owners[action.owner_id].orders_account, action.slot),
             order_at(r.owners[action.owner_id].orders_account, action.slot),
             client_order_id_at(r.owners[action.owner_id].orders_account, action.slot),
             verbose, fault)

\* lines 297-366
run_cancel_order(action, r0, verbose, fault) ==
    cancel_order_entered(action, Entered(r0, verbose), verbose, fault)

MatchSent(action) == [kind |-> "MatchOrders", limit |-> action.limit]

match_orders_answered(action, r, resp, verbose) ==
    IF resp.err = "Ok"
    THEN Continued(r, action, MatchSent(action), resp.err, r.owners, resp.market, verbose)
    ELSE Panicked(r, action, MatchSent(action), resp.err, r.owners, resp.err)

\* lines 368-381
run_match_orders(action, r0, verbose, fault) ==
    match_orders_answered(action, Entered(r0, verbose),
        IF fault = "none" THEN ex_match_orders(r0.market, action.limit)
        ELSE [err |-> fault, market |-> r0.market],
        verbose)

\* a sort by the key of the owner's signer account
RECURSIVE sorted_by_signer_key(_, _)
sorted_by_signer_key(owners, ids) ==
    IF ids = {} THEN <<>>
    ELSE LET first == CHOOSE x \in ids :
                          \A y \in ids :
                              owners[x].signer_account <= owners[y].signer_account
         IN  <<first>> \o sorted_by_signer_key(owners, ids \ {first})

\* sorted_by_key(|account_info| account_info.key.to_aligned_bytes()), over the
\* orders accounts; orders_key stands for the aligned bytes of that account's key
RECURSIVE sorted_by_orders_key(_, _)
sorted_by_orders_key(owners, ids) ==
    IF ids = {} THEN <<>>
    ELSE LET first == CHOOSE x \in ids :
                          \A y \in ids : owners[x].orders_key <= owners[y].orders_key
         IN  <<first>> \o sorted_by_orders_key(owners, ids \ {first})

\* lines 384-387: the owners whose orders account is passed
live_owners(owners) == {x \in DOMAIN owners : open_orders_is_some(owners[x])}

\* lines 393-403: the owners' orders accounts, then the four market accounts
ConsumeSent(action, accounts) ==
    [kind |-> "ConsumeEvents", accounts |-> accounts,
     extended_with |-> <<"market", "event_q", "coin_vault", "pc_vault">>,
     limit |-> action.limit]

consume_events_answered(action, r, instr, resp, verbose) ==
    IF resp.err = "Ok"
    THEN Continued(r, action, instr, resp.err, resp.owners, resp.market, verbose)
    ELSE Panicked(r, action, instr, resp.err, r.owners, resp.err)

\* a ConsumeEvents that is dispatched also when no owner qualifies
consume_events_unguarded(action, r, accounts, verbose, fault) ==
    consume_events_answered(action, r, ConsumeSent(action, accounts),
        IF fault = "none"
        THEN ex_consume_events(r.market, r.owners, live_owners(r.owners), action.limit)
        ELSE [err |-> fault, market |-> r.market, owners |-> r.owners],
        verbose)

\* lines 390-404
consume_events_gathered(action, r, accounts, verbose, fault) ==
    IF accounts = <<>> THEN Returned(r, action)
    ELSE consume_events_answered(action, r, ConsumeSent(action, accounts),
             IF fault = "none"
             THEN ex_consume_events(r.market, r.owners, live_owners(r.owners),
                                    action.limit)
             ELSE [err |-> fault, market |-> r.market, owners |-> r.owners],
             verbose)

\* lines 383-405
run_consume_events(action, r0, verbose, fault) ==
    consume_events_gathered(action, Entered(r0, verbose),
        sorted_by_orders_key(r0.owners, live_owners(r0.owners)), verbose, fault)

SettleSent(action) == [kind |-> "SettleFunds", owner |-> action.owner_id]

settle_funds_answered(action, r, resp, verbose) ==
    IF resp.err = "Ok"
    THEN Continued(r, action, SettleSent(action), resp.err,
                   [r.owners EXCEPT ![action.owner_id] = resp.owner],
                   resp.market, verbose)
    ELSE Panicked(r, action, SettleSent(action), resp.err, r.owners, resp.err)

\* a SettleFunds that provisions the owner it does not find
settle_funds_provisioning(action, r, verbose, fault) ==
    IF action.owner_id \notin DOMAIN r.owners
    THEN Returned([r EXCEPT !.owners = entry_or_insert_with(@, action.owner_id,
                                           [signer |-> 0, orders |-> 0])], action)
    ELSE IF ~open_orders_is_some(r.owners[action.owner_id]) THEN Returned(r, action)
    ELSE settle_funds_answered(action, r,
             IF fault = "none" THEN ex_settle_funds(r.market, r.owners[action.owner_id])
             ELSE Rejected(fault, r.market, r.owners[action.owner_id]),
             verbose)

\* lines 407-433
settle_funds_entered(action, r, verbose, fault) ==
    IF action.owner_id \notin DOMAIN r.owners THEN Returned(r, action)
    ELSE IF ~open_orders_is_some(r.owners[action.owner_id]) THEN Returned(r, action)
    ELSE settle_funds_answered(action, r,
             IF fault = "none" THEN ex_settle_funds(r.market, r.owners[action.owner_id])
             ELSE Rejected(fault, r.market, r.owners[action.owner_id]),
             verbose)

run_settle_funds(action, r0, verbose, fault) ==
    settle_funds_entered(action, Entered(r0, verbose), verbose, fault)

\* lines 251-467
run_action(action, r, verbose, rng, fault) ==
    CASE action.type = "PlaceOrder"    -> run_place_order(action, r, verbose, rng, fault)
      [] action.type = "CancelOrder"   -> run_cancel_order(action, r, verbose, fault)
      [] action.type = "MatchOrders"   -> run_match_orders(action, r, verbose, fault)
      [] action.type = "ConsumeEvents" -> run_consume_events(action, r, verbose, fault)
      [] action.type = "SettleFunds"   -> run_settle_funds(action, r, verbose, fault)

(***************************************************************************)
(* run_actions: the driver.  Its position is r.pc:                         *)
(*   "start"           before the bound maps are computed (lines 113-124)  *)
(*   "replay"          about to run actions[r.i] (line 127)                *)
(*   "replay_match"    about to run the MatchOrders forced at VERBOSE >= 4 *)
(*   "replay_consume"  about to run the ConsumeEvents forced at VERBOSE>=4 *)
(*   "build"           about to build the liquidation sequence (144-168)   *)
(*   "liquidate"       about to run liq[r.j] (line 171)                    *)
(*   "verify"          about to run the assertions (lines 174-248)         *)
(*   "done"            returned normally;  "panic"  aborted                *)
(* env = [actions, verbose, rng] is what a run is given and never changes. *)
(***************************************************************************)
\* the ids in descending order
RECURSIVE DescendingIds(_)
DescendingIds(ids) ==
    IF ids = {} THEN <<>>
    ELSE LET first == CHOOSE x \in ids : \A y \in ids : x >= y
         IN  <<first>> \o DescendingIds(ids \ {first})

RECURSIVE SortedIds(_)
SortedIds(ids) ==
    IF ids = {} THEN <<>>
    ELSE LET first == CHOOSE x \in ids : \A y \in ids : x <= y
         IN  <<first>> \o SortedIds(ids \ {first})

\* a cycle before every eighth cancellation, counting the cancellations alone
RECURSIVE cancel_slots_counting_cancels(_, _, _, _)
cancel_slots_counting_cancels(acc, owner_id, slots, k) ==
    IF k > Len(slots) THEN acc
    ELSE LET cancelled == Len(SelectSeq(acc, LAMBDA a : a.type = "CancelOrder"))
             cycle == IF cancelled % CYCLE_EVERY = 0
                      THEN <<MatchOrders(FORCED_LIMIT), ConsumeEvents(FORCED_LIMIT)>>
                      ELSE <<>>
         IN  cancel_slots_counting_cancels(
                 acc \o cycle \o <<CancelOrder(owner_id, slots[k], FALSE)>>,
                 owner_id, slots, k + 1)

\* a liquidation pass that cancels nothing
cancel_no_slot(acc, owner_id, slots, k) == acc

\* lines 147-159: one owner's occupied slots (order id > 0), in slot order;
\* `slots` lists them in ascending order, k is the next one to visit
RECURSIVE cancel_slots_from(_, _, _, _)
cancel_slots_from(acc, owner_id, slots, k) ==
    IF k > Len(slots) THEN acc
    ELSE LET cycle == IF Len(acc) % CYCLE_EVERY = 0
                      THEN <<MatchOrders(FORCED_LIMIT), ConsumeEvents(FORCED_LIMIT)>>
                      ELSE <<>>
         IN  cancel_slots_from(acc \o cycle \o <<CancelOrder(owner_id, slots[k], FALSE)>>,
                               owner_id, slots, k + 1)

\* the occupied slots and slot 0, occupied or not
occupied_slots_and_first(orders) ==
    SortedIds({slot \in 0 .. MAX_SLOTS - 1 :
                   slot = 0 \/ order_at(orders, slot) # OrderIdZero})

occupied_slots(orders) ==
    SortedIds({slot \in 0 .. MAX_SLOTS - 1 : order_at(orders, slot) # OrderIdZero})

\* lines 145-161
RECURSIVE cancel_all_from(_, _, _, _)
cancel_all_from(acc, owners, ids, k) ==
    IF k > Len(ids) THEN acc
    ELSE LET owner == owners[ids[k]]
         IN  cancel_all_from(
                 IF open_orders_is_some(owner)
                 THEN cancel_slots_from(acc, ids[k], occupied_slots(owner.orders_account), 1)
                 ELSE acc,
                 owners, ids, k + 1)

\* a liquidation pass that settles nobody
settle_nobody(owners, ids, k) == <<>>

\* lines 164-168
RECURSIVE settle_all_from(_, _, _)
settle_all_from(owners, ids, k) ==
    IF k > Len(ids) THEN <<>>
    ELSE (IF open_orders_is_some(owners[ids[k]]) THEN <<SettleFunds(ids[k])>> ELSE <<>>)
         \o settle_all_from(owners, ids, k + 1)

\* lines 144-168
liquidation_actions(owners) ==
    LET ids == SortedIds(DOMAIN owners)
    IN  cancel_all_from(<<>>, owners, ids, 1)
        \o <<MatchOrders(FORCED_LIMIT), ConsumeEvents(FORCED_LIMIT)>>
        \o settle_all_from(owners, ids, 1)

\* lines 176-191
conservation_asserts(owners, market) ==
    LET ids            == DOMAIN owners
        total_coin_bal == SumU([x \in ids |-> get_token_account_balance_coin(owners[x])], ids)
        total_pc_bal   == SumU([x \in ids |-> get_token_account_balance_pc(owners[x])], ids)
        len            == N(Cardinality(ids))
    IN  /\ Add(total_coin_bal, market.coin_fees_accrued) = Mul(len, INITIAL_COIN_BALANCE)
        /\ Add(total_pc_bal, market.pc_fees_accrued) = Mul(len, INITIAL_PC_BALANCE)

\* lines 194-240
bound_asserts(r, owner_id) ==
    LET owner    == r.owners[owner_id]
        coin_bal == get_token_account_balance_coin(owner)
        pc_bal   == get_token_account_balance_pc(owner)
    IN  /\ Lt(INITIAL_COIN_BALANCE, coin_bal) =>
               Le(Sub(coin_bal, INITIAL_COIN_BALANCE),
                  GetOr0(r.max_possible_coin_gained, owner_id))
        /\ Lt(INITIAL_PC_BALANCE, pc_bal) =>
               Le(Sub(pc_bal, INITIAL_PC_BALANCE),
                  GetOr0(r.max_possible_pc_gained, owner_id))
        /\ Lt(coin_bal, INITIAL_COIN_BALANCE) =>
               Le(Sub(INITIAL_COIN_BALANCE, coin_bal),
                  GetOr0(r.max_possible_coin_spent, owner_id))
        /\ Lt(pc_bal, INITIAL_PC_BALANCE) =>
               Le(Sub(INITIAL_PC_BALANCE, pc_bal),
                  GetOr0(r.max_possible_pc_spent, owner_id))

\* lines 242-247
residual_asserts(r, owner_id) ==
    LET owner == r.owners[owner_id]
    IN  open_orders_is_some(owner) =>
            /\ owner.orders_account.native_coin_total = Zero
            /\ owner.orders_account.native_pc_total = Zero

\* lines 174-248
verification_passes(r) ==
    /\ conservation_asserts(r.owners, r.market)
    /\ \A owner_id \in DOMAIN r.owners :
           bound_asserts(r, owner_id) /\ residual_asserts(r, owner_id)

\* the forced MatchOrders + ConsumeEvents one verbosity level earlier
forces_from_level_three(verbose) == verbose >= 3

\* line 128
forces_match_consume(verbose) == verbose >= 4

\* the action the next run_action call is given
current_action(env, r) ==
    CASE r.pc = "replay"         -> env.actions[r.i]
      [] r.pc = "replay_match"   -> MatchOrders(FORCED_LIMIT)
      [] r.pc = "replay_consume" -> ConsumeEvents(FORCED_LIMIT)
      [] r.pc = "liquidate"      -> r.liq[r.j]

\* where the driver stands after the run_action call at r.pc returned
after_action(env, r) ==
    LET next_log == IF r.i + 1 > Len(env.actions)
                    THEN [r EXCEPT !.i = @ + 1, !.pc = "build"]
                    ELSE [r EXCEPT !.i = @ + 1, !.pc = "replay"]
    IN  CASE r.pc = "replay" ->
                 IF forces_match_consume(env.verbose)
                 THEN [r EXCEPT !.pc = "replay_match"] ELSE next_log
          [] r.pc = "replay_match"   -> [r EXCEPT !.pc = "replay_consume"]
          [] r.pc = "replay_consume" -> next_log
          [] r.pc = "liquidate" ->
                 IF r.j + 1 > Len(r.liq)
                 THEN [r EXCEPT !.j = @ + 1, !.pc = "verify"]
                 ELSE [r EXCEPT !.j = @ + 1]

Running(r) == r.pc \in {"replay", "replay_match", "replay_consume", "liquidate"}

\* a driver that goes on after a failed run_action call
advance_past_failure(env, r2) == after_action(env, r2)

\* the driver after a run_action call that left r2: a panic ends the run
advance(env, r2) ==
    IF r2.failure # "" THEN [r2 EXCEPT !.pc = "panic"] ELSE after_action(env, r2)

\* a bound computation that reads the log it is given only up to its first
\* MatchOrders
bounds_computed_until_match(env, r) ==
    LET cut == IF \E k \in 1 .. Len(env.actions) : env.actions[k].type = "MatchOrders"
               THEN SubSeq(env.actions, 1,
                           (CHOOSE k \in 1 .. Len(env.actions) :
                                /\ env.actions[k].type = "MatchOrders"
                                /\ \A h \in 1 .. k - 1 :
                                       env.actions[h].type # "MatchOrders") - 1)
               ELSE env.actions
    IN  [r EXCEPT !.diag = IF env.verbose >= 1 THEN @ + 1 ELSE @,
                  !.max_possible_coin_gained = get_max_possible_coin_gained(cut),
                  !.max_possible_coin_spent = get_max_possible_coin_spent(cut),
                  !.max_possible_pc_gained = get_max_possible_pc_gained(cut),
                  !.max_possible_pc_spent = get_max_possible_pc_spent(cut),
                  !.pc = IF env.actions = <<>> THEN "build" ELSE "replay"]

\* lines 113-124
bounds_computed(env, r) ==
    [r EXCEPT !.diag = IF env.verbose >= 1 THEN @ + 1 ELSE @,
              !.max_possible_coin_gained = get_max_possible_coin_gained(env.actions),
              !.max_possible_coin_spent = get_max_possible_coin_spent(env.actions),
              !.max_possible_pc_gained = get_max_possible_pc_gained(env.actions),
              !.max_possible_pc_spent = get_max_possible_pc_spent(env.actions),
              !.pc = IF env.actions = <<>> THEN "build" ELSE "replay"]

\* lines 144-168
liquidation_built(r) ==
    [r EXCEPT !.liq = liquidation_actions(r.owners), !.j = 1, !.pc = "liquidate"]

\* lines 174-248
verified(r) ==
    IF verification_passes(r) THEN [r EXCEPT !.pc = "done"]
    ELSE [r EXCEPT !.pc = "panic", !.failure = "assertion failed"]

\* one step of run_actions
step(env, r, fault) ==
    CASE r.pc = "start"  -> bounds_computed(env, r)
      [] Running(r)      -> advance(env, run_action(current_action(env, r), r,
                                                    env.verbose, env.rng, fault))
      [] r.pc = "build"  -> liquidation_built(r)
      [] r.pc = "verify" -> verified(r)
      [] r.pc \in {"done", "panic"} -> r

\* the state run_actions starts from (lines 117-119)
initial_run ==
    [pc |-> "start", i |-> 1, j |-> 1, liq |-> <<>>,
     owners |-> [x \in {} |-> Zero], market |-> EmptyMarket,
     sent |-> <<>>, diag |-> 0,
     last |-> Called(NoAction, NoInstruction, "None", FALSE),
     failure |-> "",
     max_possible_coin_gained |-> EmptyMap, max_possible_coin_spent |-> EmptyMap,
     max_possible_pc_gained |-> EmptyMap, max_possible_pc_spent |-> EmptyMap]

\* run_actions from r to its end
RECURSIVE run_to_end(_, _)
run_to_end(env, r) ==
    IF r.pc \in {"done", "panic"} THEN r ELSE run_to_end(env, step(env, r, "none"))

(***************************************************************************)
(* The inputs: every log of at most MaxLen actions over a small alphabet,  *)
(* and a few longer logs that reach what short logs cannot (the scenarios  *)
(* of the specification, a full request queue, more than one liquidation   *)
(* cycle).  Owner ids come out of OwnerId::arbitrary: the raw bytes 8 and  *)
(* 9 place orders, 15 never does.                                          *)
(***************************************************************************)
MaxLen == 2

MaxVerbose == 4

MaxFaults == 1

Bid_2_at_50 == PlaceOrder(OwnerId_arbitrary(8), NewOrderInstruction("Bid", N(50), N(2), 0))

Ask_2_at_50 == PlaceOrder(OwnerId_arbitrary(9), NewOrderInstruction("Ask", N(50), N(2), 5))

Ask_1_at_40 == PlaceOrder(OwnerId_arbitrary(9), NewOrderInstruction("Ask", N(40), N(1), 0))

OwnAsk_1_at_40 == PlaceOrder(OwnerId_arbitrary(8), NewOrderInstruction("Ask", N(40), N(1), 3))

\* 20000 lots are 2_000_000_000 coin, twice what an owner holds
Ask_too_large ==
    PlaceOrder(OwnerId_arbitrary(8), NewOrderInstruction("Ask", N(40), N(20000), 0))

OrderSet == {Bid_2_at_50, Ask_2_at_50, Ask_1_at_40, OwnAsk_1_at_40, Ask_too_large}

CancelSet ==
    {CancelOrder(OwnerId_arbitrary(8), 0, FALSE),
     CancelOrder(OwnerId_arbitrary(8), 0, TRUE),
     CancelOrder(OwnerId_arbitrary(8), 1, FALSE),
     CancelOrder(OwnerId_arbitrary(9), 0, TRUE),
     CancelOrder(OwnerId_arbitrary(15), 0, FALSE),
     CancelOrder(OwnerId_arbitrary(9), 128, FALSE)}

OtherSet ==
    {MatchOrders(100), ConsumeEvents(100),
     SettleFunds(OwnerId_arbitrary(9)), SettleFunds(OwnerId_arbitrary(15))}

Alphabet == OrderSet \cup CancelSet \cup OtherSet

LogsUpTo(n) == UNION {[1 .. k -> Alphabet] : k \in 0 .. n}

\* Scenario A of the specification
ScenarioA ==
    <<PlaceOrder(OwnerId_arbitrary(1), NewOrderInstruction("Bid", N(5), N(10), 0)),
      MatchOrders(100), ConsumeEvents(100),
      CancelOrder(OwnerId_arbitrary(1), 0, FALSE),
      SettleFunds(OwnerId_arbitrary(1))>>

\* Scenario C of the specification
ScenarioC == <<Bid_2_at_50, Ask_2_at_50, MatchOrders(100), ConsumeEvents(100)>>

PartialFillThenCancel ==
    <<Bid_2_at_50, Ask_1_at_40, MatchOrders(100), ConsumeEvents(100),
      CancelOrder(OwnerId_arbitrary(8), 0, FALSE), SettleFunds(OwnerId_arbitrary(9))>>

\* the ninth request finds the request queue full
NineOrders == [k \in 1 .. REQ_Q_CAPACITY + 1 |-> Bid_2_at_50]

\* the cancellation finds the request queue full
EightOrdersThenCancel ==
    [k \in 1 .. REQ_Q_CAPACITY |-> Bid_2_at_50]
    \o <<CancelOrder(OwnerId_arbitrary(8), 0, FALSE)>>

\* seven resting orders: the liquidation pass needs a second cycle
SevenOrders == [k \in 1 .. 7 |-> IF k % 2 = 1 THEN Bid_2_at_50 ELSE Ask_2_at_50]

\* owner 2's only order is rejected while owners 0 and 1 trade
RejectedBesideTrade ==
    <<PlaceOrder(OwnerId_arbitrary(10), NewOrderInstruction("Ask", N(40), N(20000), 0)),
      Bid_2_at_50, Ask_2_at_50>>

\* thirteen resting orders: the liquidation pass needs a third cycle
ThirteenOrders ==
    [k \in 1 .. REQ_Q_CAPACITY |-> Bid_2_at_50] \o <<MatchOrders(100)>>
    \o [k \in 1 .. 5 |-> Bid_2_at_50]

ScenarioLogs ==
    {ScenarioA, ScenarioC, PartialFillThenCancel, NineOrders,
     EightOrdersThenCancel, SevenOrders, RejectedBesideTrade, ThirteenOrders}

Logs == LogsUpTo(MaxLen) \cup ScenarioLogs

Verbosities == 0 .. MaxVerbose

OwnerIds == 0 .. OWNER_MODULUS - 1

\* Owner::new draws its keys at random; ConsumeEvents sorts by the orders
\* key, so the draws cover both orders of the keys of any two owners
KeyDraws ==
    {[x \in OwnerIds |-> [signer |-> 100 + x, orders |-> 200 + x]],
     [x \in OwnerIds |-> [signer |-> 100 + x, orders |-> 300 - x]]}

\* the answers an exchange that rejects an instruction can give
ErrorCodes ==
    {"InsufficientFunds", "RequestQueueFull", "ClientOrderIdIsZero", "TooManyOpenOrders"}

(***************************************************************************)
(* The state machine.  `faults` counts the instructions the exchange was   *)
(* made to reject (SpecFault only).                                        *)
(***************************************************************************)
VARIABLES actions, VERBOSE, rng, run, faults

vars == <<actions, VERBOSE, rng, run, faults>>

env == [actions |-> actions, verbose |-> VERBOSE, rng |-> rng]

Init ==
    /\ actions \in Logs
    /\ VERBOSE \in Verbosities
    /\ rng \in KeyDraws
    /\ run = initial_run
    /\ faults = 0

Becomes(r) == run' = r /\ UNCHANGED <<actions, VERBOSE, rng, faults>>

Current == current_action(env, run)

IsNext(type) == Running(run) /\ Current.type = type

ComputeBounds == run.pc = "start" /\ Becomes(bounds_computed(env, run))

RunPlaceOrder ==
    /\ IsNext("PlaceOrder")
    /\ Becomes(advance(env, run_place_order(Current, run, VERBOSE, rng, "none")))

RunCancelOrder ==
    /\ IsNext("CancelOrder")
    /\ Becomes(advance(env, run_cancel_order(Current, run, VERBOSE, "none")))

RunMatchOrders ==
    /\ IsNext("MatchOrders")
    /\ Becomes(advance(env, run_match_orders(Current, run, VERBOSE, "none")))

RunConsumeEvents ==
    /\ IsNext("ConsumeEvents")
    /\ Becomes(advance(env, run_consume_events(Current, run, VERBOSE, "none")))

RunSettleFunds ==
    /\ IsNext("SettleFunds")
    /\ Becomes(advance(env, run_settle_funds(Current, run, VERBOSE, "none")))

BuildLiquidation == run.pc = "build" /\ Becomes(liquidation_built(run))

Verify == run.pc = "verify" /\ Becomes(verified(run))

Next ==
    \/ ComputeBounds
    \/ RunPlaceOrder
    \/ RunCancelOrder
    \/ RunMatchOrders
    \/ RunConsumeEvents
    \/ RunSettleFunds
    \/ BuildLiquidation
    \/ Verify

Spec == Init /\ [][Next]_vars

(***************************************************************************)
(* SpecFault: the same runs against an exchange that may reject any        *)
(* instruction it is handed with any error code, at most MaxFaults times   *)
(* in a run.  It exercises the harness's classification of the answers.    *)
(***************************************************************************)
Rejects(r2) ==
    /\ r2.last.instr # NoInstruction
    /\ run' = advance(env, r2)
    /\ faults' = faults + 1
    /\ UNCHANGED <<actions, VERBOSE, rng>>

ExchangeRejects ==
    /\ Running(run)
    /\ faults < MaxFaults
    /\ \E code \in ErrorCodes : Rejects(run_action(Current, run, VERBOSE, rng, code))

InitFault ==
    /\ actions \in LogsUpTo(MaxLen) \cup {ScenarioA}
    /\ VERBOSE \in {0, MaxVerbose}
    /\ rng \in KeyDraws
    /\ run = initial_run
    /\ faults = 0

NextFault == Next \/ ExchangeRejects

SpecFault == InitFault /\ [][NextFault]_vars

(***************************************************************************)
(* SpecBounds: the bound calculator alone, over logs of orders of two      *)
(* owners at several prices and sizes, some so large that 64 bits do not   *)
(* hold the products, one whose cost fits and whose cost plus fees does    *)
(* not.                                                                    *)
(***************************************************************************)
\* 2^60
Huge == Mul(N(2 ^ 30), N(2 ^ 30))

BoundAlphabet ==
    {PlaceOrder(0, NewOrderInstruction("Bid", N(50), N(2), 0)),
     PlaceOrder(1, NewOrderInstruction("Bid", N(70), N(3), 0)),
     PlaceOrder(0, NewOrderInstruction("Ask", N(40), N(2), 0)),
     PlaceOrder(1, NewOrderInstruction("Ask", N(60), N(3), 0)),
     PlaceOrder(0, NewOrderInstruction("Bid", Huge, Huge, 0)),
     PlaceOrder(1, NewOrderInstruction("Ask", N(7), Huge, 0)),
     PlaceOrder(1, NewOrderInstruction("Bid", N(2 ^ 30), N(170500000), 0)),
     MatchOrders(100)}

BoundLogs == UNION {[1 .. k -> BoundAlphabet] : k \in 0 .. MaxLen + 1}

InitBounds ==
    /\ actions \in BoundLogs
    /\ VERBOSE = 0
    /\ rng = CHOOSE draw \in KeyDraws : TRUE
    /\ run = initial_run
    /\ faults = 0

SpecBounds == InitBounds /\ [][ComputeBounds]_vars

(***************************************************************************)
(* The properties.                                                         *)
(***************************************************************************)
AtVerification == run.pc = "verify"

CoinBalances == SumU([x \in DOMAIN run.owners |-> run.owners[x].coin_account],
                     DOMAIN run.owners)

PcBalances == SumU([x \in DOMAIN run.owners |-> run.owners[x].pc_account],
                   DOMAIN run.owners)

OwnerCount == N(Cardinality(DOMAIN run.owners))

\* C1: when a run reaches verification, for coin and for pc, the balances of
\* all provisioned owners plus the market's accrued fees equal the number of
\* provisioned owners times the initial balance; owners whose every order was
\* rejected are counted.
C1_Conservation ==
    AtVerification =>
        /\ Add(CoinBalances, run.market.coin_fees_accrued)
               = Mul(OwnerCount, N(1000000000))
        /\ Add(PcBalances, run.market.pc_fees_accrued)
               = Mul(OwnerCount, Mul(N(3), N(1000000000)))

\* a trade paid fees, and an owner all of whose orders were rejected is counted
C1_Witness ==
    /\ AtVerification
    /\ run.market.pc_fees_accrued # Zero
    /\ \E x \in DOMAIN run.owners : ~open_orders_is_some(run.owners[x])

Gain(balance, initial) == IF Lt(initial, balance) THEN Sub(balance, initial) ELSE Zero

Loss(balance, initial) == IF Lt(balance, initial) THEN Sub(initial, balance) ELSE Zero

\* C2: at verification every owner's gain in an asset is at most the bound
\* computed for it from the original log, every loss at most the max-spent
\* bound, and an owner without an entry in a map has bound 0.
C2_BoundedGainLoss ==
    AtVerification =>
        \A x \in DOMAIN run.owners :
            /\ Le(Gain(run.owners[x].coin_account, INITIAL_COIN_BALANCE),
                  GetOr0(get_max_possible_coin_gained(actions), x))
            /\ Le(Gain(run.owners[x].pc_account, INITIAL_PC_BALANCE),
                  GetOr0(get_max_possible_pc_gained(actions), x))
            /\ Le(Loss(run.owners[x].coin_account, INITIAL_COIN_BALANCE),
                  GetOr0(get_max_possible_coin_spent(actions), x))
            /\ Le(Loss(run.owners[x].pc_account, INITIAL_PC_BALANCE),
                  GetOr0(get_max_possible_pc_spent(actions), x))

\* an owner gained coin and lost pc, another has no entry in the coin-gained map
C2_Witness ==
    /\ AtVerification
    /\ \E x \in DOMAIN run.owners :
           /\ Lt(INITIAL_COIN_BALANCE, run.owners[x].coin_account)
           /\ Lt(run.owners[x].pc_account, INITIAL_PC_BALANCE)
    /\ \E y \in DOMAIN run.owners :
           /\ y \notin DOMAIN get_max_possible_coin_gained(actions)
           /\ Lt(INITIAL_PC_BALANCE, run.owners[y].pc_account)

\* C3: after the liquidation pass every provisioned owner that has
\* order-tracking state has native_coin_total = 0 and native_pc_total = 0.
C3_ZeroResidual ==
    AtVerification =>
        \A x \in DOMAIN run.owners :
            open_orders_is_some(run.owners[x]) =>
                /\ run.owners[x].orders_account.native_coin_total = Zero
                /\ run.owners[x].orders_account.native_pc_total = Zero

\* the pass cancelled a resting order of an owner who had traded
C3_Witness ==
    /\ AtVerification
    /\ \E k \in 1 .. Len(run.liq) :
           /\ run.liq[k].type = "CancelOrder"
           /\ open_orders_is_some(run.owners[run.liq[k].owner_id])
           /\ run.owners[run.liq[k].owner_id].coin_account # INITIAL_COIN_BALANCE

\* the last run_action call was a cancel by client id of an occupied slot of
\* a known owner whose recorded client order id is 0
ZeroIdCancelCalled ==
    /\ run.last.action.type = "CancelOrder"
    /\ run.last.action.by_client_id
    /\ run.last.action.slot < MAX_SLOTS
    /\ run.last.action.owner_id \in DOMAIN run.owners
    /\ open_orders_is_some(run.owners[run.last.action.owner_id])
    /\ slot_side(run.owners[run.last.action.owner_id].orders_account,
                 run.last.action.slot) # "None"
    /\ client_order_id_at(run.owners[run.last.action.owner_id].orders_account,
                          run.last.action.slot) = 0

\* C4: a cancel by client id of an occupied slot whose client order id is 0
\* is submitted to the exchange; a ClientOrderIdIsZero answer is absorbed and
\* an acceptance aborts the run.
C4_ZeroIdCancelSubmitted ==
    ZeroIdCancelCalled =>
        /\ run.last.instr # NoInstruction
        /\ run.last.instr.kind = "CancelOrderByClientId"
        /\ \/ run.last.err = "ClientOrderIdIsZero" /\ run.last.absorbed
           \/ run.last.err = "Ok" /\ run.pc = "panic"

Outcome(r) == [sent |-> r.sent, market |-> r.market, owners |-> r.owners, pc |-> r.pc]

Ended == run.pc \in {"done", "panic"}

\* the run of a log at verbosity 0
QuietRun(log) == run_to_end([actions |-> log, verbose |-> 0, rng |-> rng], initial_run)

\* the log with MatchOrders(100), ConsumeEvents(100) after each of its actions
RECURSIVE Interleaved(_)
Interleaved(log) ==
    IF log = <<>> THEN <<>>
    ELSE <<Head(log), MatchOrders(100), ConsumeEvents(100)>> \o Interleaved(Tail(log))

\* C5 as stated: at every verbosity level a run dispatches the same
\* instructions and ends in the same exchange state, owner balances and
\* verification outcome as the run of the same log at verbosity 0.
C5_VerbosityDiagnosticOnly == Ended => Outcome(run) = Outcome(QuietRun(actions))

\* C5, amended: that holds at the levels 0 to 3; at level 4 and above the
\* run dispatches, and ends, as the verbosity-0 run of the log that has
\* MatchOrders(100), ConsumeEvents(100) inserted after each action.
C5_VerbosityBelowFour ==
    Ended =>
        IF VERBOSE < 4
        THEN Outcome(run) = Outcome(QuietRun(actions))
        ELSE Outcome(run) = Outcome(QuietRun(Interleaved(actions)))

\* a run at level 3 printed diagnostics and traded
C5_Witness ==
    /\ run.pc = "done"
    /\ VERBOSE = 3
    /\ run.diag > 0
    /\ run.market.pc_fees_accrued # Zero

\* what run_action is handed names an entity that is missing
MissingEntity(action, r) ==
    \/ /\ action.type = "CancelOrder"
       /\ \/ action.slot >= 128
          \/ action.owner_id \notin DOMAIN r.owners
          \/ ~open_orders_is_some(r.owners[action.owner_id])
          \/ order_at(r.owners[action.owner_id].orders_account, action.slot)
                 = OrderIdZero
    \/ /\ action.type = "SettleFunds"
       /\ \/ action.owner_id \notin DOMAIN r.owners
          \/ ~open_orders_is_some(r.owners[action.owner_id])

\* C6: a CancelOrder or SettleFunds naming a missing owner, an owner without
\* order-tracking state, an empty slot or a slot >= 128 dispatches nothing,
\* creates no owner, raises no error and leaves registry, balances and
\* exchange state unchanged.
C6_MissingEntityNoOp ==
    [][(Running(run) /\ MissingEntity(Current, run)) =>
           /\ run'.sent = run.sent
           /\ run'.owners = run.owners
           /\ run'.market = run.market
           /\ run'.failure = ""
           /\ run'.pc # "panic"]_vars

\* a cancel of an empty slot of an owner that has orders returned
C6_Witness ==
    /\ run.last.action.type = "CancelOrder"
    /\ run.last.instr = NoInstruction
    /\ run.last.action.owner_id \in DOMAIN run.owners
    /\ open_orders_is_some(run.owners[run.last.action.owner_id])
    /\ order_at(run.owners[run.last.action.owner_id].orders_account,
                run.last.action.slot) = OrderIdZero
    /\ run.sent # <<>>

NoPlaceOrder == \A k \in 1 .. Len(actions) : actions[k].type # "PlaceOrder"

\* C7: a run over a log without PlaceOrder completes normally: nobody is
\* provisioned, the liquidation sequence is MatchOrders(100),
\* ConsumeEvents(100), no ConsumeEvents is dispatched, and verification passes
\* with both sums 0.
C7_NoPlaceOrderCompletes ==
    NoPlaceOrder =>
        /\ DOMAIN run.owners = {}
        /\ run.pc # "panic"
        /\ run_to_end(env, run).pc = "done"
        /\ run.pc \in {"liquidate", "verify", "done"} =>
               run.liq = <<MatchOrders(100), ConsumeEvents(100)>>
        /\ \A k \in 1 .. Len(run.sent) : run.sent[k].kind = "MatchOrders"
        /\ run.pc \in {"verify", "done"} =>
               /\ Add(CoinBalances, run.market.coin_fees_accrued) = Zero
               /\ Add(PcBalances, run.market.pc_fees_accrued) = Zero
               /\ OwnerCount = Zero

\* Scenario B ran to its end
C7_Witness ==
    /\ actions = <<CancelOrder(7, 0, FALSE)>>
    /\ run.pc = "done"
    /\ run.sent = <<MatchSent(MatchOrders(100))>>

\* C8: the owner registry only grows: an owner is added only by a PlaceOrder
\* naming an id not yet in the registry, also when the order is rejected;
\* nothing else adds an owner, nothing removes one, and the registry holds at
\* most 8 owners, with ids 0..7.
C8_RegistryOnlyGrows ==
    [][/\ DOMAIN run.owners \subseteq DOMAIN run'.owners
       /\ DOMAIN run'.owners # DOMAIN run.owners =>
              /\ run.pc = "replay"
              /\ Current.type = "PlaceOrder"
              /\ Current.owner_id \notin DOMAIN run.owners
              /\ DOMAIN run'.owners = DOMAIN run.owners \cup {Current.owner_id}
       /\ (run.pc = "replay" /\ Current.type = "PlaceOrder") =>
              Current.owner_id \in DOMAIN run'.owners
       /\ DOMAIN run'.owners \subseteq 0 .. 7
       /\ Cardinality(DOMAIN run'.owners) <= 8]_vars

\* an owner whose first order was rejected is in the registry, beside others
C8_Witness ==
    /\ run.last.action.type = "PlaceOrder"
    /\ run.last.err = "InsufficientFunds"
    /\ ~open_orders_is_some(run.owners[run.last.action.owner_id])
    /\ Cardinality(DOMAIN run.owners) >= 2

\* the bundle Owner::new creates from a draw of keys
FreshBundle(draw) ==
    [signer_account |-> draw.signer,
     orders_key     |-> draw.orders,
     orders_account |-> [initialized |-> FALSE,
                         native_coin_free |-> Zero, native_coin_total |-> Zero,
                         native_pc_free |-> Zero, native_pc_total |-> Zero,
                         slots |-> NoSlots],
     coin_account   |-> N(1000000000),
     pc_account     |-> Mul(N(3), N(1000000000))]

\* C9: the first PlaceOrder for an owner id creates its bundle (identity,
\* untouched order-tracking account, 1_000_000_000 coin, 3_000_000_000 pc) and
\* hands it to the exchange; every later PlaceOrder for the id hands the
\* exchange the bundle as it stands, and no other owner's bundle changes.
C9_ProvisioningIdempotent ==
    [][(Running(run) /\ Current.type = "PlaceOrder") =>
           /\ Current.owner_id \in DOMAIN run'.owners
           /\ run'.owners[Current.owner_id] =
                  ex_new_order(run.market,
                               IF Current.owner_id \in DOMAIN run.owners
                               THEN run.owners[Current.owner_id]
                               ELSE FreshBundle(rng[Current.owner_id]),
                               Current.owner_id, Current.instruction).owner
           /\ run'.owners[Current.owner_id].signer_account = rng[Current.owner_id].signer
           /\ run'.owners[Current.owner_id].orders_key = rng[Current.owner_id].orders
           /\ \A x \in DOMAIN run.owners \ {Current.owner_id} :
                  run'.owners[x] = run.owners[x]]_vars

\* a later PlaceOrder of an owner found the earlier order and the spent balance
C9_Witness ==
    /\ run.last.action.type = "PlaceOrder"
    /\ run.last.err = "Ok"
    /\ Cardinality(DOMAIN run.owners[run.last.action.owner_id].orders_account.slots) >= 2
    /\ run.owners[run.last.action.owner_id].pc_account # INITIAL_PC_BALANCE

\* the rejections the claim lists for the action of the last run_action call
ExpectedRejection ==
    \/ /\ run.last.action.type = "PlaceOrder"
       /\ run.last.err \in {"InsufficientFunds", "RequestQueueFull"}
    \/ /\ run.last.action.type = "CancelOrder"
       /\ run.last.err = "RequestQueueFull"
    \/ /\ run.last.action.type = "CancelOrder"
       /\ run.last.err = "ClientOrderIdIsZero"
       /\ ZeroIdCancelCalled

\* C10: of the errors the exchange answers, PlaceOrder absorbs exactly
\* InsufficientFunds and RequestQueueFull, CancelOrder absorbs
\* RequestQueueFull (ClientOrderIdIsZero only for a zero client id cancelled
\* by client id), MatchOrders, ConsumeEvents and SettleFunds absorb none; after
\* an absorbed error the run goes on, after any other it stops.
C10_AbsorbedErrors ==
    run.last.err \notin {"Ok", "None"} =>
        /\ run.last.absorbed <=> ExpectedRejection
        /\ run.last.absorbed => run.failure # run.last.err
        /\ run.last.absorbed =>
               \/ run.pc # "panic"
               \/ run.failure = "assertion failed"
        /\ ~run.last.absorbed => run.pc = "panic" /\ run.failure = run.last.err
        /\ run.last.action.type \in {"MatchOrders", "ConsumeEvents", "SettleFunds"} =>
               ~run.last.absorbed

\* a CancelOrder was answered RequestQueueFull and the run went on
C10_Witness ==
    /\ run.last.action.type = "CancelOrder"
    /\ run.last.err = "RequestQueueFull"
    /\ run.last.absorbed
    /\ Running(run)

\* the errors the action handed to run_action absorbs
AbsorbedSet(action, r) ==
    CASE action.type = "PlaceOrder" -> {"InsufficientFunds", "RequestQueueFull"}
      [] action.type = "CancelOrder" ->
             IF /\ action.by_client_id
                /\ client_order_id_at(r.owners[action.owner_id].orders_account,
                                      action.slot) = 0
             THEN {"RequestQueueFull", "ClientOrderIdIsZero"}
             ELSE {"RequestQueueFull"}
      [] OTHER -> {}

\* C11: an exchange error outside the absorbed set of the action being
\* executed aborts the run at that action, in replay and in liquidation: the
\* driver's position stays at the action, and no step follows.
C11_FatalErrorAborts ==
    [][/\ run.pc # "panic"
       /\ (/\ Running(run)
           /\ run'.last.instr # NoInstruction
           /\ run'.last.err # "Ok"
           /\ run'.last.err \notin AbsorbedSet(Current, run)) =>
              /\ run'.pc = "panic"
              /\ run'.failure = run'.last.err
              /\ run'.i = run.i /\ run'.j = run.j
              /\ run'.sent = Append(run.sent, run'.last.instr)
              /\ run'.market = run.market
              /\ step(env, run', "none") = run']_vars

\* a SettleFunds of the liquidation pass failed with liquidation actions left
C11_Witness ==
    /\ run.pc = "panic"
    /\ run.failure = "TooManyOpenOrders"
    /\ run.last.action.type = "SettleFunds"
    /\ run.liq # <<>>
    /\ run.j < Len(run.liq)

PlaceOrdersOf(log) == SelectSeq(log, LAMBDA a : a.type = "PlaceOrder")

BoundMaps(r) ==
    <<r.max_possible_coin_gained, r.max_possible_coin_spent,
      r.max_possible_pc_gained, r.max_possible_pc_spent>>

ComputedMaps(log) ==
    <<get_max_possible_coin_gained(log), get_max_possible_coin_spent(log),
      get_max_possible_pc_gained(log), get_max_possible_pc_spent(log)>>

\* C12: the four bound maps the run holds are those of the log's PlaceOrder
\* actions alone, computing them leaves the owner registry and the exchange
\* as they were, and computing them again at any later point of the run
\* gives the same maps.
C12_BoundCalculatorPure ==
    [][/\ run.pc = "start" =>
              /\ BoundMaps(run') = ComputedMaps(PlaceOrdersOf(actions))
              /\ run'.owners = run.owners
              /\ run'.market = run.market
              /\ run'.sent = run.sent
       /\ run.pc # "start" =>
              /\ BoundMaps(run') = BoundMaps(run)
              /\ ComputedMaps(actions) = BoundMaps(run')]_vars

\* the maps of a log that mixes a bid with other actions, after the run ended
C12_Witness ==
    /\ run.pc = "done"
    /\ DOMAIN run.max_possible_pc_spent # {}
    /\ \E k \in 1 .. Len(actions) : actions[k].type = "MatchOrders"
    /\ run.sent # <<>>

LiquidationBuilt == run.pc \in {"liquidate", "verify", "done"}

CancelsOf(liq) == SelectSeq(liq, LAMBDA a : a.type = "CancelOrder")

SettlesOf(liq) == SelectSeq(liq, LAMBDA a : a.type = "SettleFunds")

\* where the final MatchOrders stands: two places before the settles
FinalMatchAt(liq) == Len(liq) - Len(SettlesOf(liq)) - 1

\* C13: the liquidation sequence is the CancelOrder actions by ascending
\* owner id and, within an owner, ascending slot, interleaved only with
\* MatchOrders(100), ConsumeEvents(100) pairs; then one final such pair; then
\* one SettleFunds per owner with order-tracking state by ascending owner id.
\* No cancel follows the final pair, no settle precedes it, and every
\* MatchOrders is immediately followed by a ConsumeEvents.
C13_LiquidationOrder ==
    LiquidationBuilt =>
        LET liq == run.liq
            cancels == CancelsOf(liq)
            settles == SettlesOf(liq)
            m == FinalMatchAt(liq)
        IN  /\ m >= 1
            /\ liq[m] = MatchOrders(100) /\ liq[m + 1] = ConsumeEvents(100)
            /\ \A k \in 1 .. m - 1 :
                   liq[k].type \in {"CancelOrder", "MatchOrders", "ConsumeEvents"}
            /\ m > 1 => liq[m - 1].type = "CancelOrder"
            /\ \A k \in m + 2 .. Len(liq) : liq[k].type = "SettleFunds"
            /\ \A k \in 1 .. Len(liq) :
                   /\ liq[k].type = "MatchOrders" =>
                          liq[k] = MatchOrders(100) /\ liq[k + 1] = ConsumeEvents(100)
                   /\ liq[k].type = "ConsumeEvents" =>
                          k > 1 /\ liq[k - 1].type = "MatchOrders"
            /\ \A k \in 1 .. Len(cancels) - 1 :
                   \/ cancels[k].owner_id < cancels[k + 1].owner_id
                   \/ /\ cancels[k].owner_id = cancels[k + 1].owner_id
                      /\ cancels[k].slot < cancels[k + 1].slot
            /\ \A k \in 1 .. Len(settles) - 1 :
                   settles[k].owner_id < settles[k + 1].owner_id
            /\ {settles[k].owner_id : k \in 1 .. Len(settles)}
                   = {x \in DOMAIN run.owners : open_orders_is_some(run.owners[x])}

\* a sequence with cancels of two owners, several slots each, and two settles
C13_Witness ==
    /\ run.pc = "liquidate"
    /\ Len(SettlesOf(run.liq)) >= 2
    /\ \E k \in 1 .. Len(run.liq) - 1 :
           /\ run.liq[k].type = "CancelOrder"
           /\ run.liq[k + 1].type = "CancelOrder"
           /\ run.liq[k].owner_id < run.liq[k + 1].owner_id
    /\ \E k \in 1 .. Len(run.liq) - 1 :
           /\ run.liq[k].type = "CancelOrder"
           /\ run.liq[k + 1].type = "CancelOrder"
           /\ run.liq[k].owner_id = run.liq[k + 1].owner_id

\* the place in the sequence of its k-th CancelOrder
CancelAt(liq, k) ==
    CHOOSE i \in 1 .. Len(liq) :
        /\ liq[i].type = "CancelOrder"
        /\ Len(CancelsOf(SubSeq(liq, 1, i))) = k

\* a forced cycle stands directly before the k-th CancelOrder
CycleBefore(liq, k) ==
    /\ CancelAt(liq, k) > 2
    /\ liq[CancelAt(liq, k) - 2] = MatchOrders(100)
    /\ liq[CancelAt(liq, k) - 1] = ConsumeEvents(100)

\* C14 as stated: a cycle is forced every 8 cancellations, before the 1st,
\* 9th, 17th, ... CancelOrder of the liquidation sequence and before no other.
C14_CycleEveryEightCancels ==
    LiquidationBuilt =>
        \A k \in 1 .. Len(CancelsOf(run.liq)) :
            CycleBefore(run.liq, k) <=> k % 8 = 1

\* C14, amended: a cycle is forced whenever the sequence built so far, the
\* cycles included, has a length divisible by 8: before the 1st, 7th, 13th,
\* ... CancelOrder and before no other, so that 6 cancellations stand between
\* two cycles.
C14_CycleEverySixCancels ==
    LiquidationBuilt =>
        \A k \in 1 .. Len(CancelsOf(run.liq)) :
            /\ CycleBefore(run.liq, k) <=> k % 6 = 1
            /\ CycleBefore(run.liq, k) <=> (CancelAt(run.liq, k) - 3) % 8 = 0

\* a sequence with thirteen cancels
C14_Witness ==
    /\ run.pc = "liquidate"
    /\ Len(CancelsOf(run.liq)) >= 13

\* the sequence was built and none of its actions has run: the registry is as
\* log replay left it
JustBuilt == run.pc = "liquidate" /\ run.j = 1

\* the slots that hold an order, as <<owner, slot>>
OccupiedSlots ==
    {p \in (DOMAIN run.owners) \X (0 .. 127) :
         /\ open_orders_is_some(run.owners[p[1]])
         /\ order_at(run.owners[p[1]].orders_account, p[2]) # OrderIdZero}

\* C15: the liquidation sequence holds exactly one CancelOrder{owner, slot,
\* by_client_id = false} for every slot with a nonzero order id of an owner
\* with order-tracking state when log replay ends, none for an empty slot or
\* an owner without that state, and none with by_client_id = true.
C15_CancelsExactlyOccupied ==
    JustBuilt =>
        LET cancels == CancelsOf(run.liq)
        IN  /\ {<<cancels[k].owner_id, cancels[k].slot>> : k \in 1 .. Len(cancels)}
                   = OccupiedSlots
            /\ Len(cancels) = Cardinality(OccupiedSlots)
            /\ \A k \in 1 .. Len(cancels) : cancels[k].by_client_id = FALSE

\* an owner with a freed slot below an occupied one, and cancels in the sequence
C15_Witness ==
    /\ JustBuilt
    /\ CancelsOf(run.liq) # <<>>
    /\ \E x \in DOMAIN run.owners :
           /\ open_orders_is_some(run.owners[x])
           /\ order_at(run.owners[x].orders_account, 0) = OrderIdZero
           /\ order_at(run.owners[x].orders_account, 1) # OrderIdZero

BoundsComputed == run.pc # "start"

\* the places of the log that hold a PlaceOrder of the side, of owner x
PlacesOf(log, side, x) ==
    {k \in 1 .. Len(log) : IsPlace(log[k], side) /\ log[k].owner_id = x}

\* the largest limit price among the bids of any owner before place k, or 0
RECURSIVE MaxBidBefore(_, _)
MaxBidBefore(log, k) ==
    IF k <= 1 THEN Zero
    ELSE IF log[k - 1].type = "PlaceOrder" /\ log[k - 1].instruction.side = "Bid"
    THEN MaxU(log[k - 1].instruction.limit_price, MaxBidBefore(log, k - 1))
    ELSE MaxBidBefore(log, k - 1)

\* max(T, P + P/1000) of the ask at place k, in unbounded integers
AskTerm(log, k) ==
    LET T == Mul(Mul(log[k].instruction.max_qty, MaxBidBefore(log, k)), N(100))
        P == Mul(Mul(log[k].instruction.max_qty, log[k].instruction.limit_price), N(100))
    IN  MaxU(T, Add(P, Div(P, 1000)))

TwoTo64Minus1 == Sub(Mul(Mul(N(65536), N(65536)), Mul(N(65536), N(65536))), N(1))

Clamped(a) == IF Lt(TwoTo64Minus1, a) THEN TwoTo64Minus1 ELSE a

\* C16: each owner's max pc gained is the sum, over the owner's asks, of
\* max(T, P + P/1000), T priced at the largest bid limit price earlier in the
\* log and P at the ask's own price (the sum itself whenever it is below
\* 2^64); an owner without ask has no entry, and a bid after an ask does not
\* change what the ask contributes.
C16_PcGainedFormula ==
    BoundsComputed =>
        /\ \A x \in 0 .. 7 :
               IF PlacesOf(actions, "Ask", x) = {}
               THEN x \notin DOMAIN run.max_possible_pc_gained
               ELSE /\ x \in DOMAIN run.max_possible_pc_gained
                    /\ run.max_possible_pc_gained[x] =
                           Clamped(SumU([k \in PlacesOf(actions, "Ask", x) |->
                                             AskTerm(actions, k)],
                                        PlacesOf(actions, "Ask", x)))
        /\ \A b \in {a \in BoundAlphabet : IsPlace(a, "Bid")} :
               get_max_possible_pc_gained(Append(actions, b))
                   = run.max_possible_pc_gained

\* an ask priced by an earlier bid, with a higher bid after it
C16_Witness ==
    /\ BoundsComputed
    /\ \E i, j, k \in 1 .. Len(actions) :
           /\ i < j /\ j < k
           /\ IsPlace(actions[i], "Bid") /\ IsPlace(actions[j], "Ask")
           /\ IsPlace(actions[k], "Bid")
           /\ Lt(actions[j].instruction.limit_price, actions[i].instruction.limit_price)
           /\ Lt(actions[i].instruction.limit_price, actions[k].instruction.limit_price)
           /\ run.max_possible_pc_gained[actions[j].owner_id]
                  = Mul(Mul(actions[j].instruction.max_qty,
                            actions[i].instruction.limit_price), N(100))

\* max_qty x COIN_LOT_SIZE of the order at place k, in unbounded integers
CoinTerm(log, k) == Mul(log[k].instruction.max_qty, N(100000))

\* C + C/100 of the bid at place k, in unbounded integers
BidCostTerm(log, k) ==
    LET C == Mul(Mul(log[k].instruction.max_qty, log[k].instruction.limit_price), N(100))
    IN  Add(C, Div(C, 100))

SumOverPlaces(log, side, x, term(_, _)) ==
    Clamped(SumU([k \in PlacesOf(log, side, x) |-> term(log, k)],
                 PlacesOf(log, side, x)))

OwnersPlacing(log, side) == {x \in 0 .. 7 : PlacesOf(log, side, x) # {}}

\* C17: max coin gained is the sum over the owner's bids of max_qty x
\* COIN_LOT_SIZE, max coin spent the same sum over the owner's asks, max pc
\* spent the sum over the owner's bids of C + C/100; every PlaceOrder of the
\* log is counted, whatever the exchange answers later, and a map has entries
\* only for the owners that placed an order of its side.
C17_CoinAndPcSpentFormulas ==
    BoundsComputed =>
        /\ DOMAIN run.max_possible_coin_gained = OwnersPlacing(actions, "Bid")
        /\ DOMAIN run.max_possible_pc_spent = OwnersPlacing(actions, "Bid")
        /\ DOMAIN run.max_possible_coin_spent = OwnersPlacing(actions, "Ask")
        /\ \A x \in OwnersPlacing(actions, "Bid") :
               /\ run.max_possible_coin_gained[x]
                      = SumOverPlaces(actions, "Bid", x, CoinTerm)
               /\ run.max_possible_pc_spent[x]
                      = SumOverPlaces(actions, "Bid", x, BidCostTerm)
        /\ \A x \in OwnersPlacing(actions, "Ask") :
               run.max_possible_coin_spent[x]
                   = SumOverPlaces(actions, "Ask", x, CoinTerm)

\* one owner placed two bids and an ask, and each bound is below 2^64
C17_Witness ==
    /\ BoundsComputed
    /\ \E x \in OwnersPlacing(actions, "Ask") :
           /\ Cardinality(PlacesOf(actions, "Bid", x)) = 2
           /\ Lt(run.max_possible_coin_gained[x], U64_MAX)
           /\ Lt(run.max_possible_pc_spent[x], U64_MAX)
           /\ Lt(run.max_possible_coin_spent[x], U64_MAX)
           /\ run.max_possible_coin_gained[x] # run.max_possible_coin_spent[x]

\* the places of a sequence hold each element of the set once
ListsOnce(seq, S) ==
    /\ Len(seq) = Cardinality(S)
    /\ {seq[k] : k \in 1 .. Len(seq)} = S

\* C18 as stated: the accounts a ConsumeEvents passes are in ascending order
\* of a key derived from each owner's identity, the signer account.
C18_SortedByOwnerIdentity ==
    run.last.instr.kind = "ConsumeEvents" =>
        \A i, j \in 1 .. Len(run.last.instr.accounts) :
            i < j => run.owners[run.last.instr.accounts[i]].signer_account
                         < run.owners[run.last.instr.accounts[j]].signer_account

\* C18, amended: a ConsumeEvents passes the orders accounts of exactly the
\* provisioned owners with live order-tracking state, each once, in
\* ascending order of the aligned bytes of the orders account's own key,
\* followed by market, event queue, coin vault and pc vault; with no such
\* owner it dispatches nothing; a MatchOrders is always dispatched.
C18_ConsumeEventsAccounts ==
    [][/\ (Running(run) /\ Current.type = "ConsumeEvents") =>
              IF live_owners(run.owners) = {}
              THEN run'.sent = run.sent /\ run'.last.instr = NoInstruction
              ELSE /\ run'.sent = Append(run.sent, run'.last.instr)
                   /\ run'.last.instr.kind = "ConsumeEvents"
                   /\ run'.last.instr.limit = Current.limit
                   /\ ListsOnce(run'.last.instr.accounts, live_owners(run.owners))
                   /\ \A i, j \in 1 .. Len(run'.last.instr.accounts) :
                          i < j => run.owners[run'.last.instr.accounts[i]].orders_key
                                       < run.owners[run'.last.instr.accounts[j]].orders_key
                   /\ run'.last.instr.extended_with
                          = <<"market", "event_q", "coin_vault", "pc_vault">>
       /\ (Running(run) /\ Current.type = "MatchOrders") =>
              run'.sent = Append(run.sent, MatchSent(Current))]_vars

\* a ConsumeEvents passed two orders accounts whose keys are ordered against
\* their owners' signer keys, while a third owner without orders was left out
C18_Witness ==
    /\ run.last.instr.kind = "ConsumeEvents"
    /\ Len(run.last.instr.accounts) = 2
    /\ run.owners[run.last.instr.accounts[1]].signer_account
           > run.owners[run.last.instr.accounts[2]].signer_account
    /\ Cardinality(DOMAIN run.owners) = 3

\* the slot a liquidation cancel names, as it is when the cancel executes
SlotNow == [side     |-> slot_side(run.owners[Current.owner_id].orders_account,
                                   Current.slot),
            order_id |-> order_at(run.owners[Current.owner_id].orders_account,
                                  Current.slot)]

\* C19: the liquidation sequence is fixed when it is built, from the slots as
\* replay left them, and each of its CancelOrders reads its slot when it
\* executes: if a forced match/consume cycle of the pass emptied the slot the
\* cancel dispatches nothing and the run goes on unchanged; if it dispatches,
\* the instruction carries the side and order id the slot holds at that time.
C19_CancelRereadsSlot ==
    [][/\ run.pc = "build" =>
              run'.liq = liquidation_actions(run.owners)
       /\ run.pc = "liquidate" => run'.liq = run.liq
       /\ (run.pc = "liquidate" /\ Current.type = "CancelOrder") =>
              IF SlotNow.side = "None"
              THEN /\ run'.sent = run.sent
                   /\ run'.owners = run.owners
                   /\ run'.market = run.market
                   /\ run'.last.instr = NoInstruction
                   /\ run'.failure = ""
                   /\ run'.pc = "liquidate"
                   /\ run'.j = run.j + 1
              ELSE /\ run'.last.instr =
                          [kind |-> "CancelOrder", owner |-> Current.owner_id,
                           side |-> SlotNow.side, order_id |-> SlotNow.order_id,
                           owner_slot |-> Current.slot]
                   /\ run'.sent = Append(run.sent, run'.last.instr)]_vars

\* a liquidation cancel found its slot emptied by the cycle that opened the
\* pass, after another cancel of the same pass was dispatched
C19_Witness ==
    /\ run.pc = "liquidate"
    /\ run.j > 1
    /\ run.liq[run.j - 1].type = "CancelOrder"
    /\ run.last.action = run.liq[run.j - 1]
    /\ run.last.instr = NoInstruction
    /\ \E k \in 1 .. Len(run.sent) : run.sent[k].kind = "CancelOrder"
    /\ \A k \in 1 .. Len(actions) : actions[k].type = "PlaceOrder"

\* every entry of m is kept, and not lowered, in n
NotBelow(m, n) ==
    /\ DOMAIN m \subseteq DOMAIN n
    /\ \A x \in DOMAIN m : Le(m[x], n[x])

InRange(m) == \A x \in DOMAIN m : Le(m[x], TwoTo64Minus1)

\* the four bound maps of a log
BoundsOf(log) ==
    <<get_max_possible_coin_gained(log), get_max_possible_pc_spent(log),
      get_max_possible_coin_spent(log), get_max_possible_pc_gained(log)>>

\* C20: the bound arithmetic saturates: every entry of the four maps is at
\* most 2^64 - 1 and equals the smaller of 2^64 - 1 and the unbounded value
\* of its formula, appending a PlaceOrder to the log lowers no entry of any
\* map, and computing the bounds never fails the run.
C20_BoundsSaturate ==
    BoundsComputed =>
        /\ run.failure = ""
        /\ run.pc \in {"replay", "build"}
        /\ \A n \in 1 .. 4 : InRange(BoundsOf(actions)[n])
        /\ \A x \in DOMAIN run.max_possible_coin_gained :
               run.max_possible_coin_gained[x]
                   = MinU(SumU([k \in PlacesOf(actions, "Bid", x) |-> CoinTerm(actions, k)],
                               PlacesOf(actions, "Bid", x)), TwoTo64Minus1)
        /\ \A x \in DOMAIN run.max_possible_pc_spent :
               run.max_possible_pc_spent[x]
                   = MinU(SumU([k \in PlacesOf(actions, "Bid", x) |-> BidCostTerm(actions, k)],
                               PlacesOf(actions, "Bid", x)), TwoTo64Minus1)
        /\ \A x \in DOMAIN run.max_possible_coin_spent :
               run.max_possible_coin_spent[x]
                   = MinU(SumU([k \in PlacesOf(actions, "Ask", x) |-> CoinTerm(actions, k)],
                               PlacesOf(actions, "Ask", x)), TwoTo64Minus1)
        /\ \A x \in DOMAIN run.max_possible_pc_gained :
               run.max_possible_pc_gained[x]
                   = MinU(SumU([k \in PlacesOf(actions, "Ask", x) |-> AskTerm(actions, k)],
                               PlacesOf(actions, "Ask", x)), TwoTo64Minus1)
        /\ \A o \in {a \in BoundAlphabet : a.type = "PlaceOrder"} :
               \A n \in 1 .. 4 :
                   NotBelow(BoundsOf(actions)[n], BoundsOf(Append(actions, o))[n])

\* an owner's pc spent and another's pc gained stand at 2^64 - 1 although an
\* order of ordinary size followed the oversized one
C20_Witness ==
    /\ BoundsComputed
    /\ \E x \in DOMAIN run.max_possible_pc_spent :
           /\ run.max_possible_pc_spent[x] = TwoTo64Minus1
           /\ run.max_possible_coin_gained[x] = TwoTo64Minus1
           /\ \E i, j \in PlacesOf(actions, "Bid", x) :
                  /\ i < j
                  /\ Lt(TwoTo64Minus1, BidCostTerm(actions, i))
                  /\ Lt(BidCostTerm(actions, j), TwoTo64Minus1)
    /\ \E y \in DOMAIN run.max_possible_pc_gained :
           run.max_possible_pc_gained[y] = TwoTo64Minus1

====
